---- MODULE Spec2Model ----
(***************************************************************************)
(* freader: the ingestion engine (watcher, file tracker, offset store,     *)
(* tail scheduler, tail reader, collector workers) as a state machine.     *)
(*                                                                         *)
(* Threads: NumWorkers collector workers, one watcher goroutine, the       *)
(* caller of Collector.Stop, and the environment that writes, renames and  *)
(* creates files.  Every step of a thread is one critical section of the   *)
(* code (one mutex-protected call or one system call).                     *)
(*                                                                         *)
(* Identities are those of the deviceAndInode strategy: the identity of a  *)
(* file is its inode, which a rename keeps.  Files are only appended to.   *)
(* The store fails only when its handle is closed.  The workers' backoff   *)
(* between rounds is a delay and is left to the interleaving.              *)
(*                                                                         *)
(* Four specifications share the actions:                                  *)
(*   Spec       a file is written, moved out of the included paths and     *)
(*              back while the collector runs;                             *)
(*   SpecSched  the scheduler alone, under any order of its calls;         *)
(*   SpecStop   Collector.Stop at any moment, then a new collector on the  *)
(*              same store and files;                                      *)
(*   SpecRot    rotation: rename to another included path, a new file at   *)
(*              the old path.                                              *)
(***************************************************************************)
EXTENDS Integers, Sequences, FiniteSets, TLC

\* ---------------------------------------------------------------- bounds
NumWorkers == 2   \* workers of a collector
MaxLen == 4       \* bytes a file can hold
RaceLen == 2      \* bytes a file can hold in Spec and SpecRot
MaxFsOps == 2     \* renames and creations
MaxTailers == 2   \* TailReader objects built by one collector
MaxAfterStop == 2      \* chunks counted after stopCh was closed
MaxRuns == 2      \* collectors started on the store, one after the other

\* ------------------------------------------------------------- universe
Workers == 1..NumWorkers
Ids == {"X", "Y"}
\* the paths the include patterns match, in the order filepath.Walk visits them
WalkOrder == <<"p", "q">>
Paths == {WalkOrder[k] : k \in 1..Len(WalkOrder)}
\* "out": a path no include pattern matches; "none": not created yet
Places == Paths \cup {"out", "none"}
Bytes == {"a", "n"}
Separator == <<"n">>
StoreOffsets == TRUE
Nil == 0

VARIABLES
  loc,            \* file system: inode -> the place its directory entry is at
  data,           \* file system: inode -> its bytes
  fsOps,          \* renames and creations done so far
  info,           \* FileTracker.info: id -> TrackedFile
  offsets,        \* the rows of the store's offsets table: id -> offset
  dbOpen,         \* the sql.DB handle of the store is open
  tailers,        \* the TailReader objects built by onAdd: handle -> object
  available,      \* TailScheduler.available: list of elements (handles)
  cursor,         \* TailScheduler.cursor: an element or Nil
  index,          \* TailScheduler.index: id -> element
  running,        \* TailScheduler.running: id -> bool
  pc,             \* worker -> its position in Collector.worker
  cur,            \* worker -> the tailer getNextAvailable handed to it
  file,           \* worker -> the inode of TailReader.file (the open handle)
  wpc,            \* the watcher goroutine's position in scan
  walkAt,         \* scan: position of the walk in WalkOrder
  existingFiles,  \* scan: the ids observed by the walk so far
  toRemove,       \* scan: ids of the GetAllFiles snapshot that were not seen
  remId,          \* scan: the id whose removal is in progress
  stopCh,         \* Collector.stopCh is closed
  wStopCh,        \* Watcher.stopCh is closed
  stopPc,         \* the position of the caller of Collector.Stop
  run,            \* number of collectors constructed on this store so far
  emitted,        \* history: inode -> (chunk start offset -> times delivered)
  since,          \* history: id -> positions delivered since its registry
                  \*   entry was created
  lines,          \* history: inode -> (chunk start offset -> the string the
                  \*   callback received for it last)
  err,            \* worker -> the error its ReadOnce returned, until SetIdle
  afterStop,      \* history: worker -> the chunks its ReadOnce has processed
                  \*   since the collector's stopCh was closed (up to MaxAfterStop)
  partial,        \* history: inode -> the runs in which a ReadOnce returned
                  \*   in front of bytes without a separator
  tpc,            \* stand-alone TailReader: position of its reading goroutine
  tsep,           \* TailReader.Separator
  tbuf,           \* TailReader.buf
  rpos,           \* the file position of TailReader.reader
  mlMode,         \* TailReader.Multiline: "none" (nil) or MultilineReader.Mode
  mlBuf,          \* MultilineReader.buf
  mlQueue,        \* MultilineReader.queue
  outCh,          \* MultilineReader.outCh: the records waiting in the channel
  mlCfg,          \* MultilineReader.StartPattern, ConditionPattern, Timeout
  written,        \* history: the lines the aggregator's own caller gave to
                  \*   Write, in order (SpecML)
  fp,             \* the call of GetFileFingerprintUntilNSeparators in
                  \*   progress: the file's content, sep, n, the bytes
                  \*   accumulated, found, searchStart, the result (SpecFp)
  retry,          \* the call of sqliteStore.Save or Delete in progress: its
                  \*   position in execWithRetry, attempt, the errors Exec
                  \*   returned and the pauses made (SpecRetry)
  bp,             \* bufferPool and the TailReaders that share it: the pointers
                  \*   the pool holds, each reader's file and buf (its backing
                  \*   array and length), the arrays' capacities (SpecPool)
  fds,            \* a TailReader's open calls on one file: the file's bytes
                  \*   and inode now, the identity tracked, t.file, the file
                  \*   descriptors that are open, open's last return (SpecOpen)
  cb,             \* the workers' calls of the OnLine callback: each worker's
                  \*   position in the function it hands to ReadOnce, the
                  \*   holder of Collector.mu, the lines delivered (SpecCb)
  tStop,          \* the position of the caller of TailReader.Stop
  out,            \* history: the strings the callback received, in order
  chunks,         \* history: the chunks readNextChunk returned, concatenated
  lastGet         \* history: the last getNextAvailable call (iterations within
                  \* one pass, a tailer returned, a tailer was not in-flight)

\* the configuration the stand-alone reader's aggregator is given:
\* StartPattern "^a", ConditionPattern "^$" and a positive Timeout
TailCfg == [StartPattern |-> "^a", ConditionPattern |-> "^$", Timeout |-> 1]

\* no call of the store is being followed
NoRetry ==
  retry = [pc |-> "idle", op |-> "none", id |-> "none", offset |-> 0, attempt |-> 0,
           errs |-> <<>>, slept |-> <<>>, ret |-> "none"]

\* no fingerprint computation is being followed
NoFp ==
  fp = [pc |-> "none", content |-> <<>>, sep |-> <<>>, n |-> 0, acc |-> 0,
        found |-> 0, searchStart |-> 0, result |-> "none"]

\* no reader of the shared buffer pool is being followed
NoPool == bp = [pc |-> "none"]

\* no reader's file descriptors are being followed
NoFds == fds = [pc |-> "none"]

\* no callback is being followed
NoCb == cb = [on |-> FALSE]

NoAux == NoRetry /\ NoFp /\ NoPool /\ NoFds /\ NoCb

fsVars == <<loc, data, fsOps>>
schedVars == <<available, cursor, index, running>>
workerVars == <<pc, cur, file>>
scanVars == <<wpc, walkAt, existingFiles, toRemove, remId>>
stopVars == <<stopCh, wStopCh, stopPc, run>>
\* what only the specifications of single components use
auxVars == <<retry, fp, bp, fds, cb>>
tailVars == <<tpc, tsep, tbuf, rpos, mlMode, mlBuf, mlQueue, outCh, mlCfg, written,
              tStop, out, chunks, auxVars>>
vars == <<loc, data, fsOps, info, offsets, dbOpen, tailers, available, cursor,
          index, running, pc, cur, file, wpc, walkAt, existingFiles, toRemove,
          remId, stopCh, wStopCh, stopPc, run, emitted, lastGet, since, lines, partial, afterStop, err, tailVars>>

\* ------------------------------------------------------------- helpers
EmptyMap == [x \in {} |-> 0]
MapPut(m, k, v) == [x \in (DOMAIN m) \cup {k} |-> IF x = k THEN v ELSE m[x]]
MapDel(m, k) == [x \in (DOMAIN m) \ {k} |-> m[x]]
SeqDel(s, e) == SelectSeq(s, LAMBDA x : x # e)
Tail0(s, n) == SubSeq(s, n + 1, Len(s))

\* bytes.Index(buf, sep): first position (from 0) of sep in buf, or -1
HasAt(buf, sep, i) ==
  /\ i + Len(sep) <= Len(buf)
  /\ SubSeq(buf, i + 1, i + Len(sep)) = sep
BytesIndex(buf, sep) ==
  IF \E i \in 0..Len(buf) : HasAt(buf, sep, i)
  THEN CHOOSE i \in 0..Len(buf) :
         HasAt(buf, sep, i) /\ \A j \in 0..(i - 1) : ~HasAt(buf, sep, j)
  ELSE -1

\* --------------------------------------------------------- file system
\* the inode a path names, or "none" (os.Open, os.Stat)
InodeAt(p) == IF \E i \in Ids : loc[i] = p THEN CHOOSE i \in Ids : loc[i] = p ELSE "none"

\* ------------------------------------------------------- TailScheduler
Sched == [available |-> available, cursor |-> cursor, index |-> index, running |-> running]

\* container/list: Front and Element.Next
Front(l) == IF Len(l) = 0 THEN Nil ELSE l[1]
PosOf(l, e) == CHOOSE k \in 1..Len(l) : l[k] = e
ElemNext(l, e) == IF PosOf(l, e) = Len(l) THEN Nil ELSE l[PosOf(l, e) + 1]

\* TailScheduler.Remove.  list.Remove clears the removed element's links, so the
\* elem.Next() evaluated after it is nil and the cursor falls back to Front.
TailScheduler_Remove(s, id) ==
  IF id \in DOMAIN s.index
  THEN LET elem == s.index[id]
           l == SeqDel(s.available, elem)
       IN [available |-> l,
           index |-> MapDel(s.index, id),
           running |-> MapDel(s.running, id),
           cursor |-> IF s.cursor = elem THEN Front(l) ELSE s.cursor]
  ELSE s

\* TailScheduler.Add with update = false, the only way the collector calls it
TailScheduler_Add(s, id, fileTail) ==
  IF id \in DOMAIN s.index
  THEN s
  ELSE LET l == Append(s.available, fileTail)
       IN [available |-> l,
           index |-> MapPut(s.index, id, fileTail),
           running |-> s.running,
           cursor |-> IF s.cursor = Nil THEN Front(l) ELSE s.cursor]

\* TailScheduler.SetIdle
TailScheduler_SetIdle(s, id) ==
  IF id \in DOMAIN s.index
  THEN [s EXCEPT !.running = MapPut(s.running, id, FALSE)]
  ELSE s

IsRunning(s, id) == id \in DOMAIN s.running /\ s.running[id]

\* The for loop of getNextAvailable, one iteration per unfolding.  c is
\* t.cursor at the top of the iteration and n the iterations done before it.
\* The loop reads nothing but t.cursor, which takes Len+1 values: an iteration
\* count above that means the loop has come back to a state it was in, and
\* never ends (diverged).
RECURSIVE ScanLoop(_, _, _, _)
ScanLoop(s, startCursor, c, n) ==
  LET at == IF c = Nil THEN Front(s.available) ELSE c
      next == ElemNext(s.available, at)
  IN IF n > Len(s.available) + 1
     THEN [ok |-> FALSE, fileTail |-> Nil, cursor |-> c, visits |-> n, diverged |-> TRUE]
     ELSE IF ~IsRunning(s, tailers[at].FileId)
     THEN [ok |-> TRUE, fileTail |-> at, cursor |-> next, visits |-> n + 1, diverged |-> FALSE]
     ELSE IF next = startCursor
     THEN [ok |-> FALSE, fileTail |-> Nil, cursor |-> next, visits |-> n + 1, diverged |-> FALSE]
     ELSE ScanLoop(s, startCursor, next, n + 1)

\* a getNextAvailable that begins every search at the head
GetFromFront(s) ==
  IF Len(s.available) = 0
  THEN [ok |-> FALSE, fileTail |-> Nil, cursor |-> s.cursor, visits |-> 0, diverged |-> FALSE]
  ELSE ScanLoop(s, Nil, Nil, 0)

\* TailScheduler.getNextAvailable: what the call returns and the cursor it leaves
GetNextAvailable(s) ==
  IF Len(s.available) = 0
  THEN [ok |-> FALSE, fileTail |-> Nil, cursor |-> s.cursor, visits |-> 0, diverged |-> FALSE]
  ELSE ScanLoop(s, s.cursor, s.cursor, 0)

\* the scheduler's mutex is held for good by a call that never returns
Locked == \E w \in Workers : pc[w] = "spin"

\* ---------------------------------------------------------- FileTracker
FileTracker_Add(m, fileId, path, offset) == MapPut(m, fileId, [Path |-> path, Offset |-> offset])

FileTracker_UpdateOffset(m, fileId, offset) ==
  IF fileId \in DOMAIN m THEN [m EXCEPT ![fileId].Offset = offset] ELSE m

FileTracker_Remove(m, fileId) == MapDel(m, fileId)

\* ---------------------------------------------------------- sqliteStore
\* a call on a closed sql.DB returns an error and changes no row
Store_Save(rows, fileID, offset) == IF dbOpen THEN MapPut(rows, fileID, offset) ELSE rows

Store_Delete(rows, fileID) == IF dbOpen THEN MapDel(rows, fileID) ELSE rows

\* Load: <<offset, found>>
Store_Load(rows, fileID) ==
  IF dbOpen /\ fileID \in DOMAIN rows THEN <<rows[fileID], TRUE>> ELSE <<0, FALSE>>

\* ----------------------------------------------------------- TailReader
\* TailReader.open: the error it returns, "nil" for none
TailReader_open(t) ==
  IF t.FileId \notin DOMAIN info THEN "file not found"
  ELSE IF InodeAt(info[t.FileId].Path) = "none" THEN "not exist"
  ELSE IF InodeAt(info[t.FileId].Path) # t.FileId THEN "fingerprint mismatch"
  ELSE "nil"

\* a nil error
NoError == [kind |-> "nil"]

\* an open that reports a changed file without saying which
MismatchWithoutFields(t) == [kind |-> "FileFingerprintMismatchError"]

\* the error open returns when it fails: FileFingerprintMismatchError with
\* the path opened and the expected and the recomputed identity, or an error
\* that carries its kind only
OpenError(t) ==
  IF TailReader_open(t) = "fingerprint mismatch"
  THEN [kind |-> "FileFingerprintMismatchError",
        Path |-> info[t.FileId].Path,
        ExpectedFingerprint |-> t.FileId,
        ActualFingerprint |-> InodeAt(info[t.FileId].Path)]
  ELSE [kind |-> TailReader_open(t)]

\* a readNextChunk that returns the bytes in front of EOF as a chunk
ReadPartialChunk(rest, sep) ==
  IF BytesIndex(rest, sep) >= 0 THEN BytesIndex(rest, sep) + Len(sep) ELSE Len(rest)

\* readNextChunk on the bytes that follow the read position: the length of
\* the next chunk, separator included, or 0 at EOF (no complete separator)
ReadNextChunk(rest, sep) ==
  IF BytesIndex(rest, sep) >= 0 THEN BytesIndex(rest, sep) + Len(sep) ELSE 0

\* a callback argument that keeps the separator
LineWithSeparator(chunk, sep) == chunk

\* the string handed to the callback for a chunk: the chunk without its
\* separator
LineOf(chunk, sep) ==
  IF Len(chunk) >= Len(sep) THEN SubSeq(chunk, 1, Len(chunk) - Len(sep)) ELSE chunk

\* one more delivery of the record that starts at offset off of inode i
Deliver(e, i, off) ==
  [e EXCEPT ![i] = MapPut(e[i], off, (IF off \in DOMAIN e[i] THEN e[i][off] ELSE 0) + 1)]

\* ------------------------------------------------------ Collector.worker
\* top of the loop: stopCh is closed
WorkerReturn(w) ==
  /\ pc[w] = "idle"
  /\ stopCh
  /\ pc' = [pc EXCEPT ![w] = "done"]
  /\ UNCHANGED <<fsVars, info, offsets, dbOpen, tailers, schedVars, cur, file,
                 scanVars, stopVars, emitted, lastGet, since, lines, partial, afterStop, err, tailVars>>

\* fileTail, ok := c.scheduler.getNextAvailable()
getNextAvailable(w) ==
  /\ pc[w] = "idle"
  /\ ~stopCh
  /\ ~Locked
  /\ LET r == GetNextAvailable(Sched)
     IN /\ lastGet' = [onePass |-> r.visits <= Len(available),
                       found |-> r.ok,
                       free |-> \E k \in 1..Len(available) :
                                  ~IsRunning(Sched, tailers[available[k]].FileId)]
        /\ IF r.diverged
           THEN /\ pc' = [pc EXCEPT ![w] = "spin"]
                /\ UNCHANGED <<cursor, running, cur>>
           ELSE /\ cursor' = r.cursor
                /\ IF r.ok
                   THEN /\ running' = MapPut(running, tailers[r.fileTail].FileId, TRUE)
                        /\ cur' = [cur EXCEPT ![w] = r.fileTail]
                        /\ pc' = [pc EXCEPT ![w] = "open"]
                   ELSE UNCHANGED <<running, cur, pc>>
  /\ UNCHANGED <<fsVars, info, offsets, dbOpen, tailers, available, index, file,
                 scanVars, stopVars, emitted, since, lines, partial, afterStop, err, tailVars>>

\* ReadOnce: t.open(), whose error ReadOnce returns to the worker
ReadOnce_open(w) ==
  /\ pc[w] = "open"
  /\ IF TailReader_open(tailers[cur[w]]) = "nil"
     THEN /\ file' = [file EXCEPT ![w] = InodeAt(info[tailers[cur[w]].FileId].Path)]
          /\ pc' = [pc EXCEPT ![w] = "read"]
          /\ UNCHANGED err
     ELSE /\ pc' = [pc EXCEPT ![w] = "setidle"]
          /\ err' = [err EXCEPT ![w] = OpenError(tailers[cur[w]])]
          /\ UNCHANGED file
  /\ UNCHANGED <<fsVars, info, offsets, dbOpen, tailers, schedVars, cur,
                 scanVars, stopVars, emitted, lastGet, since, lines, partial, afterStop, tailVars>>

\* ReadOnce: one iteration of the chunk loop, or the return at EOF with cleanup
ReadOnce_chunk(w) ==
  /\ pc[w] = "read"
  /\ LET t == tailers[cur[w]]
         n == ReadNextChunk(Tail0(data[file[w]], t.Offset), Separator)
     IN IF n > 0
        THEN /\ emitted' = IF n > Len(Separator)
                           THEN Deliver(emitted, file[w], t.Offset)
                           ELSE emitted
             /\ since' = IF n > Len(Separator)
                         THEN [since EXCEPT ![file[w]] = @ \cup {t.Offset}]
                         ELSE since
             /\ lines' = IF n > Len(Separator)
                         THEN [lines EXCEPT ![file[w]] =
                                 MapPut(@, t.Offset,
                                        LineOf(SubSeq(data[file[w]], t.Offset + 1, t.Offset + n),
                                               Separator))]
                         ELSE lines
             /\ tailers' = [tailers EXCEPT ![cur[w]].Offset = t.Offset + n]
             /\ UNCHANGED <<pc, file>>
        ELSE /\ pc' = [pc EXCEPT ![w] = "update"]
             /\ file' = [file EXCEPT ![w] = "none"]
             /\ UNCHANGED <<emitted, since, lines, tailers>>
  /\ afterStop' = IF stopCh /\ ReadNextChunk(Tail0(data[file[w]], tailers[cur[w]].Offset),
                                                Separator) > 0
                  THEN [afterStop EXCEPT ![w] = IF @ < MaxAfterStop THEN @ + 1 ELSE @]
                  ELSE afterStop
  /\ partial' = IF Len(data[file[w]]) > tailers[cur[w]].Offset
                   /\ ReadNextChunk(Tail0(data[file[w]], tailers[cur[w]].Offset), Separator) = 0
                THEN [partial EXCEPT ![file[w]] = @ \cup {run}]
                ELSE partial
  /\ UNCHANGED <<fsVars, info, offsets, dbOpen, schedVars, cur, scanVars,
                 stopVars, lastGet, err, tailVars>>

\* c.fileManager.UpdateOffset(fileTail.FileId, fileTail.Offset)
UpdateOffset(w) ==
  /\ pc[w] = "update"
  /\ info' = FileTracker_UpdateOffset(info, tailers[cur[w]].FileId, tailers[cur[w]].Offset)
  /\ pc' = [pc EXCEPT ![w] = IF StoreOffsets THEN "get" ELSE "setidle"]
  /\ UNCHANGED <<fsVars, offsets, dbOpen, tailers, schedVars, cur, file,
                 scanVars, stopVars, emitted, lastGet, since, lines, partial, afterStop, err, tailVars>>

\* fileInfo := c.fileManager.Get(fileTail.FileId); if fileInfo != nil
Get(w) ==
  /\ pc[w] = "get"
  /\ pc' = [pc EXCEPT ![w] = IF tailers[cur[w]].FileId \in DOMAIN info
                              THEN "save" ELSE "setidle"]
  /\ UNCHANGED <<fsVars, info, offsets, dbOpen, tailers, schedVars, cur, file,
                 scanVars, stopVars, emitted, lastGet, since, lines, partial, afterStop, err, tailVars>>

\* c.offsetDB.Save(fileTail.FileId, strategy, fileInfo.Path, fileTail.Offset)
Save(w) ==
  /\ pc[w] = "save"
  /\ offsets' = Store_Save(offsets, tailers[cur[w]].FileId, tailers[cur[w]].Offset)
  /\ pc' = [pc EXCEPT ![w] = "setidle"]
  /\ UNCHANGED <<fsVars, info, dbOpen, tailers, schedVars, cur, file,
                 scanVars, stopVars, emitted, lastGet, since, lines, partial, afterStop, err, tailVars>>

\* c.scheduler.SetIdle(fileTail.FileId)
SetIdle(w) ==
  /\ pc[w] = "setidle"
  /\ ~Locked
  /\ running' = TailScheduler_SetIdle(Sched, tailers[cur[w]].FileId).running
  /\ pc' = [pc EXCEPT ![w] = "idle"]
  /\ cur' = [cur EXCEPT ![w] = Nil]
  /\ err' = [err EXCEPT ![w] = NoError]
  /\ UNCHANGED <<fsVars, info, offsets, dbOpen, tailers, available, cursor, index,
                 file, scanVars, stopVars, emitted, lastGet, since, lines, partial, afterStop, tailVars>>

\* --------------------------------------------------------- Watcher.scan
\* the ticker fires (or Start's immediate scan): scan begins its walk.  The
\* goroutine's select takes either case when the ticker and stopCh are both
\* ready, so a scan can begin after Watcher.Stop.
scan ==
  /\ wpc = "idle"
  /\ wpc' = "walk"
  /\ walkAt' = 1
  /\ existingFiles' = {}
  /\ UNCHANGED <<fsVars, info, offsets, dbOpen, tailers, schedVars, workerVars,
                 toRemove, remId, stopVars, emitted, lastGet, since, lines, partial, afterStop, err, tailVars>>

\* what the walk function does to the registry for id observed at path:
\* FileTracker.Get, and Add with offset 0 when the id is not tracked
scanRegister(m, id, path) ==
  IF id \in DOMAIN m THEN m ELSE FileTracker_Add(m, id, path, 0)

\* an onAdd that ignores the store
onAddFromZero(id) == 0

\* onAdd, up to the construction of the TailReader: the offset it starts at
onAddOffset(id) == IF Store_Load(offsets, id)[2] THEN Store_Load(offsets, id)[1] ELSE 0

\* the walk function finds at path a file it has to register
scanAdds(path) ==
  /\ InodeAt(path) # "none"
  /\ Len(data[InodeAt(path)]) > 0
  /\ InodeAt(path) \notin DOMAIN info

\* the walk function on the next path: computeFileID (zero-size files are
\* skipped), existingFiles, the registry, and onAdd up to scheduler.Add.
\* The guard on tailers caps the number of TailReader objects ever built.
scanVisit ==
  /\ wpc = "walk"
  /\ walkAt <= Len(WalkOrder)
  /\ scanAdds(WalkOrder[walkAt]) => Len(tailers) < MaxTailers
  /\ LET path == WalkOrder[walkAt]
         id == InodeAt(path)
     IN IF id = "none" \/ Len(data[id]) = 0
        THEN /\ walkAt' = walkAt + 1
             /\ UNCHANGED <<wpc, existingFiles, info, tailers, since>>
        ELSE /\ existingFiles' = existingFiles \cup {id}
             /\ IF id \in DOMAIN info
                THEN /\ info' = scanRegister(info, id, path)
                     /\ walkAt' = walkAt + 1
                     /\ UNCHANGED <<wpc, tailers, since>>
                ELSE /\ info' = FileTracker_UpdateOffset(scanRegister(info, id, path),
                                                         id, onAddOffset(id))
                     /\ tailers' = Append(tailers, [FileId |-> id, Offset |-> onAddOffset(id)])
                     /\ since' = [since EXCEPT ![id] = {}]
                     /\ wpc' = "add"
                     /\ UNCHANGED walkAt
  /\ UNCHANGED <<fsVars, offsets, dbOpen, schedVars, workerVars, toRemove, remId,
                 stopVars, emitted, lastGet, lines, partial, afterStop, err, tailVars>>

\* onAdd: c.scheduler.Add(id, &fileTail, false), then the walk goes on
onAdd ==
  /\ wpc = "add"
  /\ ~Locked
  /\ LET s == TailScheduler_Add(Sched, tailers[Len(tailers)].FileId, Len(tailers))
     IN /\ available' = s.available
        /\ cursor' = s.cursor
        /\ index' = s.index
        /\ running' = s.running
  /\ wpc' = "walk"
  /\ walkAt' = walkAt + 1
  /\ UNCHANGED <<fsVars, info, offsets, dbOpen, tailers, workerVars, existingFiles,
                 toRemove, remId, stopVars, emitted, lastGet, since, lines, partial, afterStop, err, tailVars>>

\* the walk is over: GetAllFiles, and the ids of it that were not observed
scanSnapshot ==
  /\ wpc = "walk"
  /\ walkAt > Len(WalkOrder)
  /\ toRemove' = (DOMAIN info) \ existingFiles
  /\ wpc' = IF toRemove' = {} THEN "idle" ELSE "remove"
  /\ walkAt' = 1
  /\ existingFiles' = {}
  /\ UNCHANGED <<fsVars, info, offsets, dbOpen, tailers, schedVars, workerVars,
                 remId, stopVars, emitted, lastGet, since, lines, partial, afterStop, err, tailVars>>

\* onRemove: c.scheduler.Remove(id), for the next id of the range (any order)
onRemove ==
  /\ wpc = "remove"
  /\ ~Locked
  /\ \E id \in toRemove :
       /\ remId' = id
       /\ LET s == TailScheduler_Remove(Sched, id)
          IN /\ available' = s.available
             /\ cursor' = s.cursor
             /\ index' = s.index
             /\ running' = s.running
  /\ wpc' = "delete"
  /\ UNCHANGED <<fsVars, info, offsets, dbOpen, tailers, workerVars, walkAt,
                 existingFiles, toRemove, stopVars, emitted, lastGet, since, lines, partial, afterStop, err, tailVars>>

\* onRemove: c.offsetDB.Delete(id, strategy)
onRemoveDelete ==
  /\ wpc = "delete"
  /\ offsets' = IF StoreOffsets THEN Store_Delete(offsets, remId) ELSE offsets
  /\ wpc' = "untrack"
  /\ UNCHANGED <<fsVars, info, dbOpen, tailers, schedVars, workerVars, walkAt,
                 existingFiles, toRemove, remId, stopVars, emitted, lastGet, since, lines, partial, afterStop, err, tailVars>>

\* w.fileManager.Remove(fileId), then the range goes on or scan returns
scanRemove ==
  /\ wpc = "untrack"
  /\ info' = FileTracker_Remove(info, remId)
  /\ toRemove' = toRemove \ {remId}
  /\ wpc' = IF toRemove' = {} THEN "idle" ELSE "remove"
  /\ remId' = "none"
  /\ UNCHANGED <<fsVars, offsets, dbOpen, tailers, schedVars, workerVars, walkAt,
                 existingFiles, stopVars, emitted, lastGet, since, lines, partial, afterStop, err, tailVars>>

\* -------------------------------------------------------- Collector.Stop
\* close(c.stopCh)
Stop ==
  /\ stopPc = "running"
  /\ stopCh' = TRUE
  /\ stopPc' = "wait"
  /\ UNCHANGED <<fsVars, info, offsets, dbOpen, tailers, schedVars, workerVars,
                 scanVars, wStopCh, run, emitted, lastGet, since, lines, partial, afterStop, err, tailVars>>

\* c.workerWg.Wait() returns; c.watcher.Stop() closes the watcher's stopCh
\* and returns at once
StopWatcher ==
  /\ stopPc = "wait"
  /\ \A w \in Workers : pc[w] = "done"
  /\ wStopCh' = TRUE
  /\ stopPc' = "close"
  /\ UNCHANGED <<fsVars, info, offsets, dbOpen, tailers, schedVars, workerVars,
                 scanVars, stopCh, run, emitted, lastGet, since, lines, partial, afterStop, err, tailVars>>

\* c.offsetDB.Close(); Stop returns
StopClose ==
  /\ stopPc = "close"
  /\ dbOpen' = FALSE
  /\ stopPc' = "stopped"
  /\ UNCHANGED <<fsVars, info, offsets, tailers, schedVars, workerVars,
                 scanVars, stopCh, wStopCh, run, emitted, lastGet, since, lines, partial, afterStop, err, tailVars>>

\* the watcher goroutine's select takes the stopCh case and returns
watcherReturn ==
  /\ wpc = "idle"
  /\ wStopCh
  /\ wpc' = "done"
  /\ UNCHANGED <<fsVars, info, offsets, dbOpen, tailers, schedVars, workerVars,
                 walkAt, existingFiles, toRemove, remId, stopVars, emitted, lastGet, since, lines, partial, afterStop, err, tailVars>>

\* ---------------------------------------------------------- environment
\* a writer appends one byte to a file
Write(i, b) ==
  /\ loc[i] # "none"
  /\ Len(data[i]) < MaxLen
  /\ data' = [data EXCEPT ![i] = Append(@, b)]
  /\ UNCHANGED <<loc, fsOps, info, offsets, dbOpen, tailers, schedVars, workerVars,
                 scanVars, stopVars, emitted, lastGet, since, lines, partial, afterStop, err, tailVars>>

\* os.Rename of a file to a free path, or out of the included paths
Rename(i, to) ==
  /\ fsOps < MaxFsOps
  /\ loc[i] \notin {"none", to}
  /\ to \in Paths \cup {"out"}
  /\ to = "out" \/ InodeAt(to) = "none"
  /\ loc' = [loc EXCEPT ![i] = to]
  /\ fsOps' = fsOps + 1
  /\ UNCHANGED <<data, info, offsets, dbOpen, tailers, schedVars, workerVars,
                 scanVars, stopVars, emitted, lastGet, since, lines, partial, afterStop, err, tailVars>>

\* a new, empty file is created at a free included path
Create(i, path) ==
  /\ fsOps < MaxFsOps
  /\ loc[i] = "none"
  /\ path \in Paths
  /\ InodeAt(path) = "none"
  /\ loc' = [loc EXCEPT ![i] = path]
  /\ fsOps' = fsOps + 1
  /\ UNCHANGED <<data, info, offsets, dbOpen, tailers, schedVars, workerVars,
                 scanVars, stopVars, emitted, lastGet, since, lines, partial, afterStop, err, tailVars>>

\* ------------------------------------------------------- specifications
\* NewCollector and Start on a store: nothing tracked, nothing scheduled,
\* the workers at the top of their loop, the watcher about to scan
Started ==
  /\ info = EmptyMap
  /\ dbOpen = TRUE
  /\ tailers = <<>>
  /\ available = <<>>
  /\ cursor = Nil
  /\ index = EmptyMap
  /\ running = EmptyMap
  /\ pc = [w \in Workers |-> "idle"]
  /\ cur = [w \in Workers |-> Nil]
  /\ file = [w \in Workers |-> "none"]
  /\ wpc = "idle"
  /\ walkAt = 1
  /\ existingFiles = {}
  /\ toRemove = {}
  /\ remId = "none"
  /\ stopCh = FALSE
  /\ wStopCh = FALSE
  /\ stopPc = "running"
  /\ lastGet = [onePass |-> TRUE, found |-> FALSE, free |-> FALSE]

\* no stand-alone TailReader is in use
NoTailReader ==
  /\ tpc = "none"
  /\ tsep = Separator
  /\ tbuf = <<>>
  /\ rpos = 0
  /\ mlMode = "none"
  /\ mlBuf = <<>>
  /\ mlQueue = <<>>
  /\ outCh = <<>>
  /\ mlCfg = TailCfg
  /\ written = <<>>
  /\ NoAux
  /\ tStop = "no"
  /\ out = <<>>
  /\ chunks = <<>>

Init ==
  /\ loc = [i \in Ids |-> IF i = "X" THEN "p" ELSE "none"]
  /\ data = [i \in Ids |-> <<>>]
  /\ fsOps = 0
  /\ offsets = EmptyMap
  /\ run = 1
  /\ emitted = [i \in Ids |-> EmptyMap]
  /\ since = [i \in Ids |-> {}]
  /\ lines = [i \in Ids |-> EmptyMap]
  /\ partial = [i \in Ids |-> {}]
  /\ afterStop = [w \in Workers |-> 0]
  /\ err = [w \in Workers |-> NoError]
  /\ NoTailReader
  /\ Started

\* one iteration of worker w's loop
worker(w) ==
  \/ getNextAvailable(w)
  \/ ReadOnce_open(w)
  \/ ReadOnce_chunk(w)
  \/ UpdateOffset(w)
  \/ Get(w)
  \/ Save(w)
  \/ SetIdle(w)

\* the watcher's scan up to its removal loop
WatcherStep ==
  \/ scan
  \/ scanVisit
  \/ onAdd
  \/ scanSnapshot

\* the workers and the watcher of a started collector
CollectorStep ==
  \/ \E w \in Workers : worker(w)
  \/ WatcherStep

\* the scan's removal of the identities it did not observe
RemovalStep ==
  \/ onRemove
  \/ onRemoveDelete
  \/ scanRemove

\* Spec: while the collector runs, the file at p is written, moved out of
\* the included paths and moved back in
Next ==
  \/ CollectorStep
  \/ RemovalStep
  \/ \E i \in Ids, b \in Bytes : Len(data[i]) < RaceLen /\ Write(i, b)
  \/ \E i \in Ids : Rename(i, "out")
  \/ \E i \in Ids, path \in Paths : loc[i] = "out" /\ Rename(i, path)

Spec == Init /\ [][Next]_vars

\* ------------------------------------------------------------ SpecSched
\* The scheduler called directly, as TestTailScheduler_Comprehensive calls it:
\* Add and Remove in any order, while the workers call getNextAvailable and
\* SetIdle (nothing is tracked, so every ReadOnce ends in open's error).
Add(id) ==
  /\ Len(tailers) < MaxTailers
  /\ ~Locked
  /\ tailers' = Append(tailers, [FileId |-> id, Offset |-> 0])
  /\ LET s == TailScheduler_Add(Sched, id, Len(tailers) + 1)
     IN /\ available' = s.available
        /\ cursor' = s.cursor
        /\ index' = s.index
        /\ running' = s.running
  /\ UNCHANGED <<fsVars, info, offsets, dbOpen, workerVars, scanVars, stopVars,
                 emitted, lastGet, since, lines, partial, afterStop, err, tailVars>>

Remove(id) ==
  /\ ~Locked
  /\ LET s == TailScheduler_Remove(Sched, id)
     IN /\ available' = s.available
        /\ cursor' = s.cursor
        /\ index' = s.index
        /\ running' = s.running
  /\ UNCHANGED <<fsVars, info, offsets, dbOpen, tailers, workerVars, scanVars,
                 stopVars, emitted, lastGet, since, lines, partial, afterStop, err, tailVars>>

NextSched ==
  \/ \E id \in Ids : Add(id)
  \/ \E id \in Ids : Remove(id)
  \/ \E w \in Workers : getNextAvailable(w)
  \/ \E w \in Workers : ReadOnce_open(w)
  \/ \E w \in Workers : SetIdle(w)

SpecSched == Init /\ [][NextSched]_vars

\* the same calls with workers that keep running
SpecSchedFair ==
  /\ Init /\ [][NextSched]_vars
  /\ \A w \in Workers : WF_vars(worker(w))

\* ------------------------------------------------------------- SpecStop
\* NewCollector and Start again, on the store and the files the stopped
\* collector left.  The stopped collector's watcher goroutine can still be
\* running; it works on the old collector's registry and scheduler and on
\* a closed store handle, so it cannot affect the new collector, and the
\* restart is taken once it has returned.
Restart ==
  /\ stopPc = "stopped"
  /\ wpc = "done"
  /\ wpc' = "idle"
  /\ run < MaxRuns
  /\ run' = run + 1
  /\ info' = EmptyMap
  /\ dbOpen' = TRUE
  /\ tailers' = <<>>
  /\ available' = <<>>
  /\ cursor' = Nil
  /\ index' = EmptyMap
  /\ running' = EmptyMap
  /\ pc' = [w \in Workers |-> "idle"]
  /\ cur' = [w \in Workers |-> Nil]
  /\ file' = [w \in Workers |-> "none"]
  /\ stopCh' = FALSE
  /\ wStopCh' = FALSE
  /\ stopPc' = "running"
  /\ lastGet' = [onePass |-> TRUE, found |-> FALSE, free |-> FALSE]
  /\ since' = [i \in Ids |-> {}]
  /\ afterStop' = [w \in Workers |-> 0]
  /\ err' = [w \in Workers |-> NoError]
  /\ UNCHANGED <<fsVars, offsets, walkAt, existingFiles, toRemove, remId, emitted,
                 lines, partial, tailVars>>

\* SpecStop: the files stay where they are and are written to; the collector
\* is stopped at any moment and a new one is started
NextStop ==
  \/ CollectorStep
  \/ \E w \in Workers : WorkerReturn(w)
  \/ Stop
  \/ StopWatcher
  \/ StopClose
  \/ watcherReturn
  \/ Restart
  \/ \E i \in Ids, b \in Bytes : Write(i, b)

\* every goroutine keeps being scheduled, and the watcher's ticker keeps firing
SpecStop ==
  /\ Init /\ [][NextStop]_vars
  /\ \A w \in Workers : WF_vars(worker(w))
  /\ WF_vars(WatcherStep)

\* -------------------------------------------------------------- SpecRot
\* SpecRot: rotation of the file at p.  It is renamed to q (an included
\* path), a new file is created at p, and both are written to.  One worker,
\* as in the rotation example (WorkerCount: 1).
NextRot ==
  \/ worker(1)
  \/ WatcherStep
  \/ \E i \in Ids, b \in Bytes : Len(data[i]) < RaceLen /\ Write(i, b)
  \/ \E i \in Ids : loc[i] = "p" /\ Rename(i, "q")
  \/ \E i \in Ids : Create(i, "p")

SpecRot ==
  /\ Init /\ [][NextRot]_vars
  /\ WF_vars(worker(1))
  /\ WF_vars(WatcherStep)

\* ============================================================ properties
\* the identity of the tailer a worker holds
HeldId(w) == tailers[cur[w]].FileId
InRead(w) == pc[w] \in {"open", "read"}
Holds(w) == pc[w] \in {"open", "read", "update", "get", "save", "setidle"}

\* the offset up to which every record of inode i has been delivered at least
\* once: the end of the longest run of complete chunks from off on that are
\* blank or were delivered
RECURSIVE DeliveredUpTo(_, _)
DeliveredUpTo(i, off) ==
  LET n == ReadNextChunk(Tail0(data[i], off), Separator)
  IN IF n = 0 THEN off
     ELSE IF n > Len(Separator) /\ off \notin DOMAIN emitted[i] THEN off
     ELSE DeliveredUpTo(i, off + n)

\* C1: at no time are two workers inside a read (ReadOnce) of the same
\* identity, whatever the interleaving of the watcher's onAdd and onRemove
\* with the workers' getNextAvailable and SetIdle.
C1_SchedulingExclusion ==
  \A w1, w2 \in Workers :
    (w1 # w2 /\ InRead(w1) /\ InRead(w2)) => HeldId(w1) # HeldId(w2)

\* C3: at every instant, for every identity, persisted offset <= registry
\* offset <= number of bytes whose records were already delivered (the
\* consequence of the order deliver, UpdateOffset, Save within an attempt).
C3_CommitOrder ==
  \A i \in Ids :
    /\ (i \in DOMAIN offsets /\ i \in DOMAIN info) => offsets[i] <= info[i].Offset
    /\ i \in DOMAIN info => info[i].Offset <= DeliveredUpTo(i, 0)
    /\ i \in DOMAIN offsets => offsets[i] <= DeliveredUpTo(i, 0)

\* the worker has committed its tailer's offset to the registry
Committed(w) ==
  /\ pc[w] \in {"get", "save"}
  /\ HeldId(w) \in DOMAIN info
  /\ info[HeldId(w)].Offset = tailers[cur[w]].Offset

\* C4: when a worker commits an offset after a successful ReadOnce, every
\* byte below the offset belongs to a delivered or blank chunk, no delivered
\* record lies beyond the offset, and the value saved to the store is the
\* value the registry holds.
C4_OffsetIsDeliveredBytes ==
  \A w \in Workers :
    /\ Committed(w) =>
         /\ tailers[cur[w]].Offset <= DeliveredUpTo(HeldId(w), 0)
         /\ \A off \in DOMAIN emitted[HeldId(w)] : off < tailers[cur[w]].Offset
    /\ (pc[w] = "save" /\ HeldId(w) \in DOMAIN info) =>
         info[HeldId(w)].Offset = tailers[cur[w]].Offset

\* C5: while an identity stays tracked, its offset in the registry, and its
\* offset in the store, never decrease.
C5_MonotonicOffset ==
  [][\A i \in Ids :
       (i \in DOMAIN info /\ i \in DOMAIN info') =>
          /\ info'[i].Offset >= info[i].Offset
          /\ (i \in DOMAIN offsets /\ i \in DOMAIN offsets') => offsets'[i] >= offsets[i]]_vars

\* C7: once the scan has removed an identity from the registry and no worker
\* attempt on it is in progress, the store holds no row for it.
C7_RemovalDeletesOffset ==
  \A i \in Ids :
    (i \notin DOMAIN info /\ \A w \in Workers : Holds(w) => HeldId(w) # i)
       => i \notin DOMAIN offsets

\* the offsets of inode i at which a non-blank separator-terminated record
\* starts, from offset off on
RECURSIVE RecordStarts(_, _)
RecordStarts(i, off) ==
  LET n == ReadNextChunk(Tail0(data[i], off), Separator)
  IN IF n = 0 THEN {}
     ELSE (IF n > Len(Separator) THEN {off} ELSE {}) \cup RecordStarts(i, off + n)

\* how many times the record at offset off of inode i was delivered
Count(i, off) == IF off \in DOMAIN emitted[i] THEN emitted[i][off] ELSE 0

\* every record written so far to any file was delivered exactly once
AllDelivered == \A i \in Ids : \A off \in RecordStarts(i, 0) : Count(i, off) = 1

\* C2: every getNextAvailable returns after at most one pass over the list,
\* in every scheduler state reachable through Add, Remove, SetIdle and
\* getNextAvailable: none when every tailer is in flight (or the list is
\* empty), otherwise a tailer that was not in flight.
C2_OnePass ==
  /\ \A w \in Workers : pc[w] # "spin"
  /\ lastGet.onePass
  /\ lastGet.found <=> lastGet.free

\* nothing was delivered twice, nothing that is not a record was delivered,
\* and no reader position or persisted offset lies beyond an undelivered record
ExactlyOnceSoFar ==
  /\ \A i \in Ids : \A off \in DOMAIN emitted[i] :
       off \in RecordStarts(i, 0) /\ emitted[i][off] = 1
  /\ \A i \in DOMAIN offsets : offsets[i] <= DeliveredUpTo(i, 0)
  /\ \A k \in 1..Len(tailers) : tailers[k].Offset <= DeliveredUpTo(tailers[k].FileId, 0)

\* C6: with persistence and without multiline, whenever Stop is called and a
\* new collector is started on the same store and files, every non-blank
\* separator-terminated record of a file is delivered exactly once over the
\* runs combined: never twice, never skipped, and delivered in the end while
\* a collector is running.
C6_RestartExactlyOnce ==
  /\ []ExactlyOnceSoFar
  /\ []<>(AllDelivered \/ stopCh)

\* the second run started from the persisted offset of a record the first run
\* delivered, and delivered the record written after it
C6_Witness ==
  /\ run = 2
  /\ \E k \in 1..Len(tailers), w \in Workers :
       /\ pc[w] = "update" /\ cur[w] = k
       /\ tailers[k].FileId = "X"
       /\ tailers[k].Offset = 4
  /\ "X" \in DOMAIN offsets /\ offsets["X"] = 2
  /\ DOMAIN emitted["X"] = {0, 2}

\* C8: Stop closes the store only after the watcher's in-flight scan has
\* completed, so no onAdd callback (with its store Load) runs once the store
\* is closed and Stop has returned.
C8_StopWaitsForScan ==
  [][(wpc = "walk" /\ wpc' = "add") => (dbOpen /\ stopPc # "stopped")]_vars

\* C9: under rotation (the tailed file renamed and still written, a new file
\* created at the original path) every record of the original file and of
\* the new file is delivered exactly once under its own identity: never
\* twice, and in the end delivered.
C9_RotationNoGapNoDup ==
  /\ [](\A i \in Ids : \A off \in DOMAIN emitted[i] : emitted[i][off] = 1)
  /\ []<>AllDelivered

\* C10: when the walk observes a registered identity at a path other than the
\* registered one, the scan rewrites the registry entry's path to the
\* observed path and leaves the offset unchanged.
C10_PathRewrite ==
  [][(/\ wpc = "walk"
      /\ walkAt <= Len(WalkOrder)
      /\ walkAt' = walkAt + 1
      /\ InodeAt(WalkOrder[walkAt]) \in DOMAIN info
      /\ Len(data[InodeAt(WalkOrder[walkAt])]) > 0
      /\ info[InodeAt(WalkOrder[walkAt])].Path # WalkOrder[walkAt])
     => info'[InodeAt(WalkOrder[walkAt])] =
          [info[InodeAt(WalkOrder[walkAt])] EXCEPT !.Path = WalkOrder[walkAt]]]_vars

\* C14: for every identity, whatever the number of workers, the records
\* delivered for it appear in strictly increasing order of their byte
\* position: a delivery is of a position above every position delivered
\* since the identity was registered.
C14_ByteOrder ==
  [][\A i \in Ids : \A off \in DOMAIN emitted'[i] :
       (emitted'[i][off] > Count(i, off)) =>
          \A before \in since[i] : before < off]_vars

\* -------------------------------------------------------------- SpecRun
\* SpecRun: the collector runs, a second file is created, and both files
\* stay where they are and are written to; the second file receives the
\* bytes of one record, the first any bytes
NextRun ==
  \/ CollectorStep
  \/ \E b \in Bytes : Len(data["X"]) < RaceLen /\ Write("X", b)
  \/ Len(data["Y"]) < RaceLen /\ Write("Y", <<"a", "n">>[Len(data["Y"]) + 1])
  \/ \E i \in Ids : Create(i, "q")

SpecRun ==
  /\ Init /\ [][NextRun]_vars
  /\ \A w \in Workers : WF_vars(worker(w))
  /\ WF_vars(WatcherStep)

\* the body of the record that starts at offset off of inode i: the bytes
\* before the first separator
RecordBody(i, off) ==
  SubSeq(data[i], off + 1, off + BytesIndex(Tail0(data[i], off), Separator))

RECURSIVE CompleteEnd(_, _)
CompleteEnd(i, off) ==
  LET idx == BytesIndex(Tail0(data[i], off), Separator)
  IN IF idx < 0 THEN off ELSE CompleteEnd(i, off + idx + Len(Separator))

\* C12: without multiline, bytes at the end of a file that no separator
\* follows are neither delivered nor counted in an offset (the tailer's, the
\* registry's, the persisted one), and once the separator is appended the
\* completed record is delivered once and not skipped, also when the
\* collector was stopped and a new one started on the same store in between.
C12_PartialRecord ==
  \A i \in Ids :
    /\ \A off \in DOMAIN emitted[i] :
         /\ off < CompleteEnd(i, 0)
         /\ Len(lines[i][off]) < CompleteEnd(i, 0) - off
         /\ emitted[i][off] = 1
    /\ \A k \in 1..Len(tailers) :
         tailers[k].FileId = i =>
           /\ tailers[k].Offset <= CompleteEnd(i, 0)
           /\ tailers[k].Offset <= DeliveredUpTo(i, 0)
    /\ i \in DOMAIN info => info[i].Offset <= CompleteEnd(i, 0)
    /\ i \in DOMAIN offsets =>
         /\ offsets[i] <= CompleteEnd(i, 0)
         /\ offsets[i] <= DeliveredUpTo(i, 0)

\* the first collector read the file when it held bytes without a separator
\* and persisted offset 0; the second delivered the record once completed
C12_Witness ==
  /\ run = 2
  /\ 1 \in partial["X"]
  /\ data["X"] = <<"a", "n">>
  /\ DOMAIN emitted["X"] = {0}
  /\ "X" \in DOMAIN offsets /\ offsets["X"] = 2

\* ------------------------------------------- a TailReader on its own
\* One TailReader built by hand on a registry that holds its file, as the
\* tailer tests build it: tailers[1] is the reader, info the registry,
\* data["X"] the file.  The reader is used through ReadOnce, or through Run
\* and Stop; the multiline aggregator's ticker goroutine runs beside it.

\* the separators the reader is configured with when it has no aggregator
Separators == {<<"n">>, <<"a", "n">>, <<"n", "n">>, <<"n", "a">>}

Modes == {"continuePast", "continueThrough", "haltBefore", "haltWith"}

\* the byte appendWithNL joins lines with
NL == "n"

\* regexp.Compile accepts the pattern
Compiles(p) == p # "("

\* (*Regexp).Match of the pattern p on line
Match(p, line) ==
  CASE p = "^a" -> Len(line) > 0 /\ line[1] = "a"
    [] p = "^b" -> Len(line) > 0 /\ line[1] = "b"
    [] p = "^$" -> Len(line) = 0
    [] OTHER -> FALSE

\* m.startRe.Match(line) and m.re.Match(line)
StartMatch(line) == Match(mlCfg.StartPattern, line)
ConditionMatch(line) == Match(mlCfg.ConditionPattern, line)

\* MultilineReader.Validate
Multiline_Validate(c) ==
  IF c.StartPattern = "" THEN "StartPattern is required"
  ELSE IF c.ConditionPattern = "" THEN "ConditionPattern is required"
  ELSE IF c.Timeout <= 0 THEN "timeout must be > 0"
  ELSE "nil"

\* MultilineReader.init: Validate, then both patterns are compiled
Multiline_init(c) ==
  IF Multiline_Validate(c) # "nil" THEN Multiline_Validate(c)
  ELSE IF ~Compiles(c.ConditionPattern) THEN "error parsing regexp"
  ELSE IF ~Compiles(c.StartPattern) THEN "error parsing regexp"
  ELSE "nil"

\* the capacity of outCh
ChanCap == 2

\* a send that makes room in a full channel by discarding its oldest record
OfferEvict(ch, rec) == IF Len(ch) < ChanCap THEN Append(ch, rec) ELSE Append(Tail(ch), rec)

\* select { case m.outCh <- rec: default: }
Offer(ch, rec) == IF Len(ch) < ChanCap THEN Append(ch, rec) ELSE ch

\* chunk := t.buf[:end] as it reads once the buffer was advanced: the copy
\* that moves buf[end:] to the front writes into the array chunk points to
ChunkAfterAdvance(buf, end) ==
  IF end < Len(buf)
  THEN [j \in 1..end |-> IF j <= Len(buf) - end THEN buf[end + j] ELSE buf[j]]
  ELSE SubSeq(buf, 1, end)

\* bufio.Reader.ReadBytes(delim) on the bytes not yet read: how many bytes
\* it returns, and whether it returned them with io.EOF
ReadBytes(rest, delim) ==
  IF \E j \in 1..Len(rest) : rest[j] = delim
  THEN [n |-> CHOOSE j \in 1..Len(rest) :
                rest[j] = delim /\ \A k \in 1..(j - 1) : rest[k] # delim,
        eof |-> FALSE]
  ELSE [n |-> Len(rest), eof |-> TRUE]

\* readNextChunk with buffer buf, the reader at position pos of content d:
\* the chunk (or EOF), the buffer and the reader position it leaves
RECURSIVE readNextChunk(_, _, _, _)
readNextChunk(buf, pos, d, sep) ==
  LET idx == BytesIndex(buf, sep)
      end == idx + Len(sep)
      r == ReadBytes(Tail0(d, pos), sep[Len(sep)])
  IN IF idx >= 0
     THEN [eof |-> FALSE,
           chunk |-> ChunkAfterAdvance(buf, end),
           buf |-> IF end < Len(buf) THEN Tail0(buf, end) ELSE <<>>,
           pos |-> pos]
     ELSE IF r.eof
     THEN [eof |-> TRUE, chunk |-> <<>>,
           buf |-> buf \o Tail0(d, pos), pos |-> Len(d)]
     ELSE readNextChunk(buf \o SubSeq(d, pos + 1, pos + r.n), pos + r.n, d, sep)

\* a join without the newline
appendNoNL(dst, line) == dst \o line

\* appendWithNL
appendWithNL(dst, line) == IF Len(dst) = 0 THEN line ELSE (dst \o <<NL>>) \o line

\* enqueueAndResetLocked
enqueueAndResetLocked(m) ==
  IF Len(m.buf) = 0 THEN m
  ELSE [buf |-> <<>>, queue |-> Append(m.queue, m.buf), ch |-> Offer(m.ch, m.buf)]

\* a Write that starts a record with any line
StartAlways(m, line) == [buf |-> line, queue |-> m.queue, ch |-> m.ch]

\* the part of Write that starts a record with the line or queues the line
\* as a record of its own
StartOrStandalone(m, line) ==
  IF StartMatch(line) THEN [buf |-> line, queue |-> m.queue, ch |-> m.ch]
  ELSE [buf |-> m.buf, queue |-> Append(m.queue, line), ch |-> Offer(m.ch, line)]

\* the switch on m.Mode in Write, which is reached with a record in the buffer
WriteByMode(mode, m, line) ==
  LET more == [buf |-> appendWithNL(m.buf, line), queue |-> m.queue, ch |-> m.ch]
  IN CASE mode = "continuePast" ->
            IF ConditionMatch(line) THEN more ELSE enqueueAndResetLocked(more)
       [] mode = "continueThrough" ->
            IF ConditionMatch(line) THEN more
            ELSE StartOrStandalone(enqueueAndResetLocked(m), line)
       [] mode = "haltBefore" ->
            IF ConditionMatch(line)
            THEN StartOrStandalone(enqueueAndResetLocked(m), line)
            ELSE more
       [] mode = "haltWith" ->
            IF ConditionMatch(line) THEN enqueueAndResetLocked(more) ELSE more
       [] OTHER ->
            [buf |-> line, queue |-> enqueueAndResetLocked(m).queue,
             ch |-> enqueueAndResetLocked(m).ch]

\* a Write that takes the branch of continueThrough in mode continuePast
Write_PastAsThrough(mode, m, line) ==
  IF Multiline_init(mlCfg) # "nil" THEN m
  ELSE IF Len(m.buf) = 0 THEN StartOrStandalone(m, line)
  ELSE WriteByMode(IF mode = "continuePast" THEN "continueThrough" ELSE mode, m, line)

\* a Write that takes the branch of haltWith in mode haltBefore
Write_BeforeAsWith(mode, m, line) ==
  IF Multiline_init(mlCfg) # "nil" THEN m
  ELSE IF Len(m.buf) = 0 THEN StartOrStandalone(m, line)
  ELSE WriteByMode(IF mode = "haltBefore" THEN "haltWith" ELSE mode, m, line)

\* a Write that takes the branch of continuePast in mode haltWith
Write_WithAsPast(mode, m, line) ==
  IF Multiline_init(mlCfg) # "nil" THEN m
  ELSE IF Len(m.buf) = 0 THEN StartOrStandalone(m, line)
  ELSE WriteByMode(IF mode = "haltWith" THEN "continuePast" ELSE mode, m, line)

\* MultilineReader.Write on the aggregator state m = [buf, queue, ch]: the
\* state it leaves (the state it found, when init returns an error)
Multiline_Write(mode, m, line) ==
  IF Multiline_init(mlCfg) # "nil" THEN m
  ELSE IF Len(m.buf) = 0 THEN StartOrStandalone(m, line)
  ELSE WriteByMode(mode, m, line)

\* a Flush that leaves the record in the buffer
Multiline_noFlush(m) == m

\* MultilineReader.Flush
Multiline_Flush(m) == enqueueAndResetLocked(m)

\* what no TailReader operation touches: the store, the scheduler, the
\* workers, the watcher and the collector's Stop
collVars == <<offsets, dbOpen, schedVars, workerVars, scanVars, stopVars,
              emitted, lastGet, since, lines, partial, afterStop, err>>

\* a loop body that advances Offset by the length of the line only
ProcessChunkLineOnly(chunk) ==
  LET line == LineOf(chunk, tsep)
      m == Multiline_Write(mlMode, [buf |-> mlBuf, queue |-> mlQueue, ch |-> outCh], line)
  IN /\ IF mlMode # "none"
        THEN /\ mlBuf' = m.buf
             /\ mlQueue' = <<>>
             /\ outCh' = m.ch
             /\ out' = out \o m.queue
        ELSE /\ out' = IF Len(chunk) > Len(tsep) THEN Append(out, line) ELSE out
             /\ UNCHANGED <<mlBuf, mlQueue, outCh>>
     /\ tailers' = [tailers EXCEPT ![1].Offset = @ + Len(line)]
     /\ chunks' = chunks \o chunk

\* the tailer's Offset and the aggregator after a chunk was processed, with
\* the records handed to the callback: the body of ReadOnce's and of
\* readLoop's loop after a successful readNextChunk
ProcessChunk(chunk) ==
  LET line == LineOf(chunk, tsep)
      m == Multiline_Write(mlMode, [buf |-> mlBuf, queue |-> mlQueue, ch |-> outCh], line)
  IN /\ IF mlMode # "none"
        THEN /\ mlBuf' = m.buf
             /\ mlQueue' = <<>>
             /\ outCh' = m.ch
             /\ out' = out \o m.queue
        ELSE /\ out' = IF Len(chunk) > Len(tsep) THEN Append(out, line) ELSE out
             /\ UNCHANGED <<mlBuf, mlQueue, outCh>>
     /\ tailers' = [tailers EXCEPT ![1].Offset = @ + Len(chunk)]
     /\ chunks' = chunks \o chunk

\* ReadOnce up to its loop: open, which leaves the reader at Offset
TailReader_ReadOnce_open ==
  /\ tpc = "new"
  /\ IF TailReader_open(tailers[1]) = "nil"
     THEN /\ tpc' = "once"
          /\ rpos' = tailers[1].Offset
          /\ tbuf' = <<>>
     ELSE UNCHANGED <<tpc, rpos, tbuf>>
  /\ UNCHANGED <<fsVars, info, tailers, collVars, tsep, mlMode, mlBuf, mlQueue, outCh, mlCfg, written, auxVars,
                 tStop, out, chunks>>

\* ReadOnce: one iteration of its loop, or the return at EOF with cleanup
TailReader_ReadOnce_chunk ==
  /\ tpc = "once"
  /\ LET r == readNextChunk(tbuf, rpos, data["X"], tsep)
         residual == r.buf
         m == [buf |-> mlBuf, queue |-> mlQueue, ch |-> outCh]
         flushed == Multiline_Flush(IF Len(residual) > 0
                                    THEN Multiline_Write(mlMode, m, residual)
                                    ELSE m)
     IN IF r.eof
        THEN /\ IF mlMode # "none"
                THEN /\ tailers' = [tailers EXCEPT ![1].Offset = @ + Len(residual)]
                     /\ out' = out \o flushed.queue
                     /\ mlBuf' = <<>>
                     /\ mlQueue' = <<>>
                     /\ outCh' = flushed.ch
                ELSE UNCHANGED <<tailers, out, mlBuf, mlQueue, outCh>>
             /\ tbuf' = <<>>
             /\ rpos' = 0
             /\ tpc' = "new"
             /\ UNCHANGED chunks
        ELSE /\ ProcessChunk(r.chunk)
             /\ tbuf' = r.buf
             /\ rpos' = r.pos
             /\ UNCHANGED tpc
  /\ UNCHANGED <<fsVars, info, collVars, tsep, mlMode, mlCfg, written, auxVars, tStop>>

\* Run on a reader that was not used before: the channels are made and the
\* goroutine is started
TailReader_Run ==
  /\ tpc = "new"
  /\ tStop = "no"
  /\ tailers[1].Offset = 0 /\ out = <<>>
  /\ tStop' = "made"
  /\ tpc' = "open"
  /\ UNCHANGED <<fsVars, info, tailers, collVars, tsep, tbuf, rpos, mlMode, mlBuf,
                 mlQueue, outCh, mlCfg, written, auxVars, out, chunks>>

\* the goroutine of Run up to readLoop's loop: when open fails readLoop
\* returns the error and the goroutine removes the file from the registry
readLoop_open ==
  /\ tpc = "open"
  /\ IF TailReader_open(tailers[1]) = "nil"
     THEN /\ tpc' = "loop"
          /\ rpos' = tailers[1].Offset
          /\ tbuf' = <<>>
          /\ UNCHANGED info
     ELSE /\ tpc' = "failed"
          /\ info' = FileTracker_Remove(info, tailers[1].FileId)
          /\ UNCHANGED <<rpos, tbuf>>
  /\ UNCHANGED <<fsVars, tailers, collVars, tsep, mlMode, mlBuf, mlQueue, outCh, mlCfg, written, auxVars, tStop,
                 out, chunks>>

\* readLoop: one iteration of its loop, which returns when the stop channel
\* is closed, drains the aggregator's queue at EOF, and else processes the
\* chunk
readLoop_chunk ==
  /\ tpc = "loop"
  /\ LET r == readNextChunk(tbuf, rpos, data["X"], tsep)
     IN IF tStop = "closing"
        THEN /\ tpc' = "done"
             /\ tbuf' = <<>>
             /\ rpos' = 0
             /\ UNCHANGED <<tailers, mlBuf, mlQueue, outCh, out, chunks>>
        ELSE IF r.eof
        THEN /\ IF mlMode # "none"
                THEN out' = out \o mlQueue /\ mlQueue' = <<>>
                ELSE UNCHANGED <<out, mlQueue>>
             /\ tbuf' = r.buf
             /\ rpos' = r.pos
             /\ UNCHANGED <<tpc, tailers, mlBuf, outCh, chunks>>
        ELSE /\ ProcessChunk(r.chunk)
             /\ tbuf' = r.buf
             /\ rpos' = r.pos
             /\ UNCHANGED tpc
  /\ UNCHANGED <<fsVars, info, collVars, tsep, mlMode, mlCfg, written, auxVars, tStop>>

\* Stop up to its wait for the goroutine: the stop channel is closed
TailReader_Stop ==
  /\ tStop = "made"
  /\ tStop' = "closing"
  /\ UNCHANGED <<fsVars, info, tailers, collVars, tpc, tsep, tbuf, rpos, mlMode,
                 mlBuf, mlQueue, outCh, mlCfg, written, auxVars, out, chunks>>

\* Stop after the goroutine has finished: t.FileManager.Remove(t.FileId)
TailReader_Stop_Remove ==
  /\ tStop = "closing"
  /\ tpc \in {"done", "failed"}
  /\ tStop' = "stopped"
  /\ info' = FileTracker_Remove(info, tailers[1].FileId)
  /\ UNCHANGED <<fsVars, tailers, collVars, tpc, tsep, tbuf, rpos, mlMode, mlBuf,
                 mlQueue, outCh, mlCfg, written, auxVars, out, chunks>>

\* a ticker that never flushes
Multiline_noTimeout ==
  /\ FALSE
  /\ UNCHANGED vars

\* the aggregator's ticker goroutine: the record being assembled has been
\* untouched for Timeout and is moved to the queue
Multiline_timeout ==
  /\ mlMode # "none"
  /\ Len(mlBuf) > 0
  /\ mlQueue' = Append(mlQueue, mlBuf)
  /\ mlBuf' = <<>>
  /\ outCh' = Offer(outCh, mlBuf)
  /\ UNCHANGED <<fsVars, info, tailers, collVars, tpc, tsep, tbuf, rpos, mlMode,
                 mlCfg, written, auxVars, tStop, out, chunks>>

\* a TailReader on a registry that holds the empty file X at path p, with
\* offset 0: without aggregator and with any of the separators, or with an
\* aggregator in any of its modes
InitTail ==
  /\ loc = [i \in Ids |-> IF i = "X" THEN "p" ELSE "none"]
  /\ data = [i \in Ids |-> <<>>]
  /\ fsOps = 0
  /\ offsets = EmptyMap
  /\ run = 1
  /\ emitted = [i \in Ids |-> EmptyMap]
  /\ since = [i \in Ids |-> {}]
  /\ lines = [i \in Ids |-> EmptyMap]
  /\ partial = [i \in Ids |-> {}]
  /\ afterStop = [w \in Workers |-> 0]
  /\ err = [w \in Workers |-> NoError]
  /\ info = FileTracker_Add(EmptyMap, "X", "p", 0)
  /\ tailers = <<[FileId |-> "X", Offset |-> 0]>>
  /\ dbOpen = TRUE
  /\ available = <<>>
  /\ cursor = Nil
  /\ index = EmptyMap
  /\ running = EmptyMap
  /\ pc = [w \in Workers |-> "idle"]
  /\ cur = [w \in Workers |-> Nil]
  /\ file = [w \in Workers |-> "none"]
  /\ wpc = "idle"
  /\ walkAt = 1
  /\ existingFiles = {}
  /\ toRemove = {}
  /\ remId = "none"
  /\ stopCh = FALSE
  /\ wStopCh = FALSE
  /\ stopPc = "running"
  /\ lastGet = [onePass |-> TRUE, found |-> FALSE, free |-> FALSE]
  /\ tpc = "new"
  /\ \/ mlMode = "none" /\ tsep \in Separators
     \/ mlMode \in Modes /\ tsep = Separator
  /\ tbuf = <<>>
  /\ rpos = 0
  /\ mlBuf = <<>>
  /\ mlQueue = <<>>
  /\ outCh = <<>>
  /\ mlCfg = TailCfg
  /\ written = <<>>
  /\ NoAux
  /\ tStop = "no"
  /\ out = <<>>
  /\ chunks = <<>>

\* SpecTail: the reader is used while the file is appended to, and the file
\* may be moved away
NextTail ==
  \/ TailReader_ReadOnce_open
  \/ TailReader_ReadOnce_chunk
  \/ TailReader_Run
  \/ readLoop_open
  \/ readLoop_chunk
  \/ TailReader_Stop
  \/ TailReader_Stop_Remove
  \/ Multiline_timeout
  \/ \E b \in Bytes : Write("X", b)
  \/ Rename("X", "out")

SpecTail ==
  /\ InitTail /\ [][NextTail]_vars
  /\ WF_vars(readLoop_chunk)
  /\ WF_vars(Multiline_timeout)

\* C13: without multiline, and for single-byte and multi-byte separators,
\* Offset is the sum of the lengths of the chunks extracted so far, and the
\* chunks concatenated (blank ones included) are the file's bytes [0, Offset).
C13_ByteConservation ==
  mlMode = "none" =>
    /\ tailers[1].Offset = Len(chunks)
    /\ chunks = SubSeq(data["X"], 1, tailers[1].Offset)

\* with separator nn the chunk ann was extracted from the file annn, whose
\* last byte is the beginning of a separator
C13_Witness ==
  /\ mlMode = "none"
  /\ tsep = <<"n", "n">>
  /\ data["X"] = <<"a", "n", "n", "n">>
  /\ chunks = <<"a", "n", "n">>
  /\ tbuf = <<"n">>

\* C16: a registry entry disappears only in the removal step of the
\* watcher's scan, and an entry that stays changes only in the watcher's
\* walk or in a worker's offset update: no step of a TailReader (ReadOnce,
\* Run and its goroutine, Stop) removes or changes an entry.
C16_RegistryFrame ==
  [][\A i \in DOMAIN info :
       /\ i \notin DOMAIN info' => (wpc = "untrack" /\ remId = i)
       /\ (i \in DOMAIN info' /\ info'[i] # info[i]) =>
            (wpc = "walk" \/ \E w \in Workers : pc[w] = "update")]_vars

\* an iteration of readLoop at EOF that hands a record to the callback which
\* the ticker had moved to the queue
TimeoutFlushDelivered ==
  /\ tpc = "loop"
  /\ mlMode # "none"
  /\ Len(mlQueue) > 0
  /\ out' = out \o mlQueue
  /\ tailers'[1].Offset = tailers[1].Offset

\* C18: under Run with multiline, when a record is delivered by a timeout
\* flush with the file idle at EOF, the bytes of the record's lines are not
\* yet counted in Offset: the file's bytes from Offset on are those lines, so
\* that a restart from this Offset reads them again.
C18_TimeoutFlushNotInOffset ==
  [][TimeoutFlushDelivered =>
       LET rec == mlQueue[1] \o tsep
           off == tailers[1].Offset
       IN /\ off + Len(rec) <= Len(data["X"])
          /\ SubSeq(data["X"], off + 1, off + Len(rec)) = rec]_vars

\* the file holds no complete chunk behind Offset
NoFurtherInput == BytesIndex(Tail0(data["X"], tailers[1].Offset), tsep) < 0

\* C19: under Run with multiline, a record the aggregator holds is handed to
\* the callback in the end although nothing more is written; a delivery with
\* no complete chunk left in the file leaves Offset as it is, and Offset
\* changes only by the length of the next complete chunk of the file.
C19_TimeoutFlushDelivery ==
  /\ [][(tpc = "loop" /\ mlMode # "none" /\ NoFurtherInput /\ out' # out)
          => tailers'[1].Offset = tailers[1].Offset]_vars
  /\ [][(tpc = "loop" /\ tailers'[1].Offset # tailers[1].Offset)
          => /\ ~NoFurtherInput
             /\ tailers'[1].Offset = tailers[1].Offset + Len(tsep)
                  + BytesIndex(Tail0(data["X"], tailers[1].Offset), tsep)]_vars
  /\ []<>(tpc # "loop" \/ mlMode = "none" \/ (mlBuf = <<>> /\ mlQueue = <<>>))

\* readLoop read the lines a and (blank) of the file ann, the aggregator
\* joined them, and the record was delivered without a further line
C19_Witness ==
  /\ tpc = "loop"
  /\ mlMode = "continueThrough"
  /\ data["X"] = <<"a", "n", "n">>
  /\ tailers[1].Offset = 3
  /\ out = << <<"a", "n">> >>
  /\ mlBuf = <<>> /\ mlQueue = <<>>

\* C20: with multiline, the return of ReadOnce at EOF on a file whose last
\* bytes have no separator advances Offset by the number of those bytes, to
\* the size of the file, and has handed to the callback a record that ends
\* with them; nothing stays in the aggregator.
C20_ReadOnceResidual ==
  [][(tpc = "once" /\ tpc' = "new" /\ mlMode # "none") =>
       LET off == tailers[1].Offset
           residual == Tail0(data["X"], off)
           last == out'[Len(out')]
       IN /\ NoFurtherInput
          /\ tailers'[1].Offset = off + Len(residual)
          /\ tailers'[1].Offset = Len(data["X"])
          /\ mlBuf' = <<>> /\ mlQueue' = <<>>
          /\ Len(residual) > 0 =>
               /\ Len(out') > Len(out)
               /\ Len(last) >= Len(residual)
               /\ Tail0(last, Len(last) - Len(residual)) = residual]_vars

\* ReadOnce in mode haltWith read the line a of the file ana and then the
\* residual a: the record of both was delivered and Offset is the file size
C20_Witness ==
  /\ tpc = "new"
  /\ mlMode = "haltWith"
  /\ data["X"] = <<"a", "n", "a">>
  /\ tailers[1].Offset = 3
  /\ out = << <<"a", "n", "a">> >>
  /\ mlBuf = <<>> /\ mlQueue = <<>>

\* ---------------------------------------------------------------- SpecIO
\* the walk function on the next path when computeFileID fails on a file
\* that is there and not empty (GetFileIDFromPath returns an error): the
\* walk goes on, and the file is not put into existingFiles
scanVisitFail ==
  /\ wpc = "walk"
  /\ walkAt <= Len(WalkOrder)
  /\ InodeAt(WalkOrder[walkAt]) # "none"
  /\ Len(data[InodeAt(WalkOrder[walkAt])]) > 0
  /\ walkAt' = walkAt + 1
  /\ UNCHANGED <<fsVars, info, offsets, dbOpen, tailers, schedVars, workerVars,
                 wpc, existingFiles, toRemove, remId, stopVars, emitted, lastGet,
                 since, lines, partial, afterStop, err, tailVars>>

\* SpecIO: the collector runs on a file that stays at its path and is
\* appended to, and computeFileID may fail on it in any scan
NextIO ==
  \/ CollectorStep
  \/ RemovalStep
  \/ scanVisitFail
  \/ \E i \in Ids, b \in Bytes : Len(data[i]) < RaceLen /\ Write(i, b)

SpecIO == Init /\ [][NextIO]_vars

\* C15: a file that is at an included path stays in the registry and in the
\* scheduler and keeps its persisted offset, also when computeFileID fails
\* on it during a scan.
C15_TransientIOKeepsFile ==
  [][\A i \in Ids : loc[i] \in Paths =>
       /\ i \in DOMAIN info => i \in DOMAIN info'
       /\ i \in DOMAIN index => i \in DOMAIN index'
       /\ i \in DOMAIN offsets => i \in DOMAIN offsets']_vars

\* C17: a worker that was handed a tailer gives it up only through SetIdle
\* for the tailer's identity, whatever ReadOnce and Save returned, and goes
\* on to request the next one; so no worker holds a tailer forever and no
\* identity stays in flight forever.
C17_AlwaysSetIdle ==
  /\ [][\A w \in Workers :
          (Holds(w) /\ ~Holds(w)') =>
             /\ pc[w] = "setidle" /\ pc'[w] = "idle"
             /\ ~IsRunning([Sched EXCEPT !.running = running'], HeldId(w))]_vars
  /\ \A w \in Workers : []<>(~Holds(w))

\* ----------------------------------------------------- SpecRR, SpecCursor
\* The scheduler with three tailers, as TestTailScheduler_Comprehensive
\* builds it: the identities of the tailers added, in the order of Add.
SchedIds == <<"X", "Y", "Z">>

\* NewTailScheduler
NewTailScheduler ==
  [available |-> <<>>, cursor |-> Nil, index |-> EmptyMap, running |-> EmptyMap]

\* the scheduler after Add was called for the first k identities of SchedIds
RECURSIVE Added(_)
Added(k) ==
  IF k = 0 THEN NewTailScheduler ELSE TailScheduler_Add(Added(k - 1), SchedIds[k], k)

\* a scheduler that holds the tailers of the first identities of SchedIds
\* (one, two or all), none of them handed out, and workers at the top of
\* their loop; no file is tracked
InitRR ==
  /\ loc = [i \in Ids |-> IF i = "X" THEN "p" ELSE "none"]
  /\ data = [i \in Ids |-> <<>>]
  /\ fsOps = 0
  /\ offsets = EmptyMap
  /\ run = 1
  /\ emitted = [i \in Ids |-> EmptyMap]
  /\ since = [i \in Ids |-> {}]
  /\ lines = [i \in Ids |-> EmptyMap]
  /\ partial = [i \in Ids |-> {}]
  /\ afterStop = [w \in Workers |-> 0]
  /\ err = [w \in Workers |-> NoError]
  /\ info = EmptyMap
  /\ \E n \in 1..Len(SchedIds) :
       /\ tailers = [k \in 1..n |-> [FileId |-> SchedIds[k], Offset |-> 0]]
       /\ available = Added(n).available
       /\ cursor = Added(n).cursor
       /\ index = Added(n).index
       /\ running = Added(n).running
  /\ dbOpen = TRUE
  /\ pc = [w \in Workers |-> "idle"]
  /\ cur = [w \in Workers |-> Nil]
  /\ file = [w \in Workers |-> "none"]
  /\ wpc = "idle"
  /\ walkAt = 1
  /\ existingFiles = {}
  /\ toRemove = {}
  /\ remId = "none"
  /\ stopCh = FALSE
  /\ wStopCh = FALSE
  /\ stopPc = "running"
  /\ lastGet = [onePass |-> TRUE, found |-> FALSE, free |-> FALSE]
  /\ NoTailReader

\* SpecRR: the set of tailers is fixed, the workers take tailers and give
\* them back
NextRR ==
  \/ \E w \in Workers : getNextAvailable(w)
  \/ \E w \in Workers : ReadOnce_open(w)
  \/ \E w \in Workers : SetIdle(w)

SpecRR ==
  /\ InitRR /\ [][NextRR]_vars
  /\ \A w \in Workers : WF_vars(worker(w))

\* SpecCursor: tailers are removed while the workers take tailers and give
\* them back
NextCursor ==
  \/ \E k \in 1..Len(SchedIds) : Remove(SchedIds[k])
  \/ \E w \in Workers : getNextAvailable(w)
  \/ \E w \in Workers : ReadOnce_open(w)
  \/ \E w \in Workers : SetIdle(w)

SpecCursor == InitRR /\ [][NextCursor]_vars

\* the element a search begins at when the cursor is c
CursorAt(c) == IF c = Nil THEN Front(available) ELSE c

\* how many elements a search that begins at cursor c looks at before it
\* looks at element k
Dist(c, k) ==
  (PosOf(available, k) - PosOf(available, CursorAt(c))) % Len(available)

\* the successor of element k in the list, the head after the tail
CyclicNext(k) ==
  IF ElemNext(available, k) = Nil THEN Front(available) ELSE ElemNext(available, k)

\* this step is a getNextAvailable of worker w that returns tailer k
Dispatched(w, k) == pc[w] = "idle" /\ pc'[w] = "open" /\ cur'[w] = k

\* C21: with a fixed set of N tailers, getNextAvailable serves them in cyclic
\* insertion order and skips those in flight: the tailer returned is not in
\* flight, every tailer the search passed is, and the next search begins at
\* the returned tailer's cyclic successor (so t1, t2, ..., tN, t1 when each
\* is set idle before the next call); every other tailer that is not in
\* flight moves at least one place closer to the cursor with each successful
\* call and no other step moves the cursor, so it is served within N
\* successful calls; and every tailer is served again and again.
C21_RoundRobin ==
  /\ [][\A w \in Workers : \A k \in 1..Len(tailers) :
          Dispatched(w, k) =>
            /\ ~IsRunning(Sched, tailers[k].FileId)
            /\ \A j \in 1..Len(tailers) :
                 /\ Dist(cursor, j) < Dist(cursor, k) => IsRunning(Sched, tailers[j].FileId)
                 /\ (j # k /\ ~IsRunning(Sched, tailers[j].FileId)) =>
                      Dist(cursor', j) < Dist(cursor, j)
            /\ CursorAt(cursor') = CyclicNext(k)]_vars
  /\ [][(\A w \in Workers : \A k \in 1..Len(tailers) : ~Dispatched(w, k))
          => CursorAt(cursor') = CursorAt(cursor)]_vars
  /\ \A k \in 1..Len(SchedIds) :
       []<>(k > Len(tailers) \/ IsRunning(Sched, tailers[k].FileId))

\* three tailers: Y and Z were served and set idle, and X is served again
C21_Witness ==
  /\ Len(available) = 3
  /\ \E w \in Workers : pc[w] = "open" /\ cur[w] = 1
  /\ "Y" \in DOMAIN running /\ ~running["Y"]
  /\ "Z" \in DOMAIN running /\ ~running["Z"]
  /\ cursor = 2

\* this step removes identity id from the scheduler
Removed(id) == id \in DOMAIN index /\ id \notin DOMAIN index'

\* C22: Remove(id) of the element the cursor points at leaves the cursor on
\* that element's successor in list order, on the head if the element was
\* the tail, and nil if the list became empty; Remove of another element
\* leaves the cursor as it is; and the id is neither in the index nor in the
\* in-flight set afterwards.
C22_RemoveCursor ==
  [][\A k \in 1..Len(SchedIds) :
       LET id == SchedIds[k]
           elem == index[id]
       IN Removed(id) =>
            /\ id \notin DOMAIN running'
            /\ cursor # elem => cursor' = cursor
            /\ cursor = elem =>
                 cursor' = IF Len(available') = 0 THEN Nil
                           ELSE IF ElemNext(available, elem) = Nil THEN Front(available')
                           ELSE ElemNext(available, elem)]_vars

\* C23: ReadOnce checks for cancellation between chunks: once the
\* collector's stop channel is closed while a worker's ReadOnce is in
\* progress, that ReadOnce processes at most the chunk in hand and returns,
\* even if more complete chunks are left in the file.
C23_CancelBetweenChunks == \A w \in Workers : afterStop[w] <= 1

\* C24: when the file that open finds at the registered path has another
\* identity than the tailer, ReadOnce returns a FileFingerprintMismatchError
\* with the path and the expected and the actual identity, no record is
\* delivered, Offset stays as it is, and no file handle is left open.
C24_FingerprintMismatch ==
  [][\A w \in Workers :
       (/\ pc[w] = "open" /\ pc'[w] # "open"
        /\ HeldId(w) \in DOMAIN info
        /\ InodeAt(info[HeldId(w)].Path) \notin {"none", HeldId(w)})
       => /\ err'[w] = [kind |-> "FileFingerprintMismatchError",
                        Path |-> info[HeldId(w)].Path,
                        ExpectedFingerprint |-> HeldId(w),
                        ActualFingerprint |-> InodeAt(info[HeldId(w)].Path)]
          /\ emitted' = emitted /\ lines' = lines
          /\ tailers'[cur[w]].Offset = tailers[cur[w]].Offset
          /\ file'[w] = "none"]_vars

\* X was rotated away and Y created at its path: the worker's ReadOnce on
\* X's tailer returned the mismatch of X with Y at path p
C24_Witness ==
  /\ pc[1] = "setidle"
  /\ err[1] = [kind |-> "FileFingerprintMismatchError", Path |-> "p",
               ExpectedFingerprint |-> "X", ActualFingerprint |-> "Y"]
  /\ file[1] = "none"

\* ---------------------------------------------------------------------------
\* SpecML: a MultilineReader used through Write, Read and its channel, beside
\* its ticker goroutine

\* the lines written to the aggregator
MLLines == {<<>>, <<"a">>, <<"b">>}

\* the configurations of the aggregator: they pass Validate and compile
MLCfgs == {[StartPattern |-> "^a", ConditionPattern |-> c, Timeout |-> 1] :
             c \in {"^$", "^a", "^b"}}

\* the number of lines written to the aggregator
MaxWrites == 4

\* the aggregator's state as Write, Flush and the ticker see it
MLState == [buf |-> mlBuf, queue |-> mlQueue, ch |-> outCh]

\* no collector and no TailReader is in use
NoCollector ==
  /\ loc = [i \in Ids |-> "none"]
  /\ data = [i \in Ids |-> <<>>]
  /\ fsOps = 0
  /\ offsets = EmptyMap
  /\ run = 1
  /\ emitted = [i \in Ids |-> EmptyMap]
  /\ since = [i \in Ids |-> {}]
  /\ lines = [i \in Ids |-> EmptyMap]
  /\ partial = [i \in Ids |-> {}]
  /\ afterStop = [w \in Workers |-> 0]
  /\ err = [w \in Workers |-> NoError]
  /\ info = EmptyMap
  /\ tailers = <<>>
  /\ dbOpen = TRUE
  /\ available = <<>>
  /\ cursor = Nil
  /\ index = EmptyMap
  /\ running = EmptyMap
  /\ pc = [w \in Workers |-> "idle"]
  /\ cur = [w \in Workers |-> Nil]
  /\ file = [w \in Workers |-> "none"]
  /\ wpc = "idle"
  /\ walkAt = 1
  /\ existingFiles = {}
  /\ toRemove = {}
  /\ remId = "none"
  /\ stopCh = FALSE
  /\ wStopCh = FALSE
  /\ stopPc = "running"
  /\ lastGet = [onePass |-> TRUE, found |-> FALSE, free |-> FALSE]
  /\ tpc = "none"
  /\ tsep = Separator
  /\ tbuf = <<>>
  /\ rpos = 0
  /\ tStop = "no"
  /\ chunks = <<>>

\* a MultilineReader in any mode with a valid configuration, nothing written
InitML ==
  /\ NoCollector
  /\ mlMode \in Modes
  /\ mlCfg \in MLCfgs
  /\ written = <<>>
  /\ NoAux
  /\ mlBuf = <<>>
  /\ mlQueue = <<>>
  /\ outCh = <<>>
  /\ out = <<>>

\* MultilineReader.Write(line)
ML_Write(line) ==
  /\ Len(written) < MaxWrites
  /\ written' = Append(written, line)
  /\ mlBuf' = Multiline_Write(mlMode, MLState, line).buf
  /\ mlQueue' = Multiline_Write(mlMode, MLState, line).queue
  /\ outCh' = Multiline_Write(mlMode, MLState, line).ch
  /\ UNCHANGED <<fsVars, info, tailers, collVars, tpc, tsep, tbuf, rpos, mlMode,
                 mlCfg, auxVars, tStop, out, chunks>>

\* MultilineReader.Read when the queue holds a record
ML_Read ==
  /\ Len(mlQueue) > 0
  /\ out' = Append(out, Head(mlQueue))
  /\ mlQueue' = Tail(mlQueue)
  /\ UNCHANGED <<fsVars, info, tailers, collVars, tpc, tsep, tbuf, rpos, mlMode,
                 mlBuf, outCh, mlCfg, written, auxVars, tStop, chunks>>

\* a receive from the channel Recv returned
ML_Recv ==
  /\ Len(outCh) > 0
  /\ outCh' = Tail(outCh)
  /\ UNCHANGED <<fsVars, info, tailers, collVars, tpc, tsep, tbuf, rpos, mlMode,
                 mlBuf, mlQueue, mlCfg, written, auxVars, tStop, out, chunks>>

NextML ==
  \/ \E line \in MLLines : ML_Write(line)
  \/ ML_Read
  \/ ML_Recv
  \/ Multiline_timeout

SpecML == InitML /\ [][NextML]_vars /\ WF_vars(Multiline_timeout)

\* a step of the ticker goroutine that found the record idle for Timeout: no
\* Write empties the buffer and queues what the buffer held unchanged
TimeoutFlushStep ==
  /\ Len(mlBuf) > 0
  /\ mlBuf' = <<>>
  /\ mlQueue' = Append(mlQueue, mlBuf)

\* C25: a non-empty buffer does not stay: when no Write takes it, the ticker
\* moves it to the queue, also when the channel is full and nobody receives.
\* The ticker's step appends the record to the channel when the channel has
\* room and leaves the channel as it is when it is full, and the record is
\* in the queue in both cases; no step that takes a record out of the buffer
\* leaves the queue without it.
C25_TimeoutFlush ==
  /\ (Len(mlBuf) > 0) ~> (mlBuf = <<>>)
  /\ [][TimeoutFlushStep =>
          /\ mlQueue'[Len(mlQueue')] = mlBuf
          /\ outCh' = IF Len(outCh) < ChanCap THEN Append(outCh, mlBuf) ELSE outCh]_vars
  /\ [][(Len(mlBuf) > 0 /\ mlBuf' # mlBuf /\ Len(mlBuf') < Len(mlBuf)) =>
          \E i \in 1..Len(mlQueue') :
            /\ Len(mlQueue'[i]) >= Len(mlBuf)
            /\ SubSeq(mlQueue'[i], 1, Len(mlBuf)) = mlBuf]_vars

\* the ticker has flushed the record a three times and nothing was read or
\* received: the third record found the channel full and is in the queue
C25_Witness ==
  /\ mlMode = "haltBefore"
  /\ mlCfg.ConditionPattern = "^b"
  /\ mlBuf = <<>>
  /\ mlQueue = <<<<"a">>, <<"a">>, <<"a">>>>
  /\ outCh = <<<<"a">>, <<"a">>>>
  /\ out = <<>>

\* ---------------------------------------------------------------------------
\* SpecCfg: a collector configuration with a multiline aggregator is
\* validated, and the TailReader of a configuration that passed reads the
\* file X with ReadOnce while the file is appended to

\* the multiline configurations: patterns that are empty, that do not
\* compile, and that compile; Timeout zero and positive
AllCfgs == [StartPattern : {"", "(", "^a"}, ConditionPattern : {"", "(", "^$"},
            Timeout : {0, 1}]

\* Config.Validate, as far as the aggregator is concerned: the error of
\* Multiline.Validate is propagated
Config_Validate(c) == Multiline_Validate(c)

\* the configuration is validated at construction: the reader exists only
\* when Validate returned nil
InitCfg ==
  /\ loc = [i \in Ids |-> IF i = "X" THEN "p" ELSE "none"]
  /\ data = [i \in Ids |-> <<>>]
  /\ fsOps = 0
  /\ offsets = EmptyMap
  /\ run = 1
  /\ emitted = [i \in Ids |-> EmptyMap]
  /\ since = [i \in Ids |-> {}]
  /\ lines = [i \in Ids |-> EmptyMap]
  /\ partial = [i \in Ids |-> {}]
  /\ afterStop = [w \in Workers |-> 0]
  /\ err = [w \in Workers |-> NoError]
  /\ info = FileTracker_Add(EmptyMap, "X", "p", 0)
  /\ tailers = <<[FileId |-> "X", Offset |-> 0]>>
  /\ dbOpen = TRUE
  /\ available = <<>>
  /\ cursor = Nil
  /\ index = EmptyMap
  /\ running = EmptyMap
  /\ pc = [w \in Workers |-> "idle"]
  /\ cur = [w \in Workers |-> Nil]
  /\ file = [w \in Workers |-> "none"]
  /\ wpc = "idle"
  /\ walkAt = 1
  /\ existingFiles = {}
  /\ toRemove = {}
  /\ remId = "none"
  /\ stopCh = FALSE
  /\ wStopCh = FALSE
  /\ stopPc = "running"
  /\ lastGet = [onePass |-> TRUE, found |-> FALSE, free |-> FALSE]
  /\ mlMode \in Modes
  /\ tsep = Separator
  /\ tbuf = <<>>
  /\ rpos = 0
  /\ mlBuf = <<>>
  /\ mlQueue = <<>>
  /\ outCh = <<>>
  /\ mlCfg \in AllCfgs
  /\ written = <<>>
  /\ NoAux
  /\ tpc = IF Config_Validate(mlCfg) = "nil" THEN "new" ELSE "rejected"
  /\ tStop = "no"
  /\ out = <<>>
  /\ chunks = <<>>

NextCfg ==
  \/ TailReader_ReadOnce_open
  \/ TailReader_ReadOnce_chunk
  \/ \E b \in Bytes : Write("X", b)

SpecCfg == InitCfg /\ [][NextCfg]_vars

Wrote == Len(written') = Len(written) + 1
Line == written'[Len(written')]

\* C27: in every mode, a Write that finds the buffer empty makes a line that
\* matches the start pattern the buffer and emits nothing; a line that does
\* not match is appended to the queue as a record of its own and offered on
\* the channel, and the buffer stays empty.
C27_EmptyBuffer ==
  [][(Wrote /\ Len(mlBuf) = 0) =>
       IF Match(mlCfg.StartPattern, Line)
       THEN mlBuf' = Line /\ mlQueue' = mlQueue /\ outCh' = outCh
       ELSE /\ mlBuf' = <<>>
            /\ mlQueue' = Append(mlQueue, Line)
            /\ outCh' = IF Len(outCh) < ChanCap THEN Append(outCh, Line) ELSE outCh]_vars

\* in mode haltWith the line b was emitted on its own and the line a, written
\* after it, is the buffer
C27_Witness ==
  /\ mlMode = "haltWith"
  /\ written = <<<<"b">>, <<"a">>>>
  /\ mlQueue = <<<<"b">>>>
  /\ mlBuf = <<"a">>

\* C28: mode continueThrough, a record in the buffer: a line that matches the
\* condition is joined to the buffer with one newline and nothing is
\* emitted; a line that does not match makes the buffer a record of the
\* queue, and then starts the next buffer when it matches the start pattern
\* and is a record of its own otherwise.
C28_ContinueThrough ==
  [][(Wrote /\ mlMode = "continueThrough" /\ Len(mlBuf) > 0) =>
       IF Match(mlCfg.ConditionPattern, Line)
       THEN mlBuf' = (mlBuf \o <<"n">>) \o Line /\ mlQueue' = mlQueue /\ outCh' = outCh
       ELSE IF Match(mlCfg.StartPattern, Line)
       THEN mlBuf' = Line /\ mlQueue' = Append(mlQueue, mlBuf)
       ELSE mlBuf' = <<>> /\ mlQueue' = Append(Append(mlQueue, mlBuf), Line)]_vars

\* with the condition ^b: a, b were joined, the line a closed that record and
\* started the next one, and the empty line closed that one and was emitted
\* on its own
C28_Witness ==
  /\ mlMode = "continueThrough"
  /\ mlCfg.ConditionPattern = "^b"
  /\ written = <<<<"a">>, <<"b">>, <<"a">>, <<>>>>
  /\ mlQueue = <<<<"a", "n", "b">>, <<"a">>, <<>>>>
  /\ mlBuf = <<>>

\* C29: mode continuePast, a record in the buffer: a line that matches the
\* condition is joined to the buffer and nothing is emitted; a line that
\* does not match is joined too and the buffer, that line included, becomes
\* one record of the queue, which leaves the buffer empty.
C29_ContinuePast ==
  [][(Wrote /\ mlMode = "continuePast" /\ Len(mlBuf) > 0) =>
       IF Match(mlCfg.ConditionPattern, Line)
       THEN mlBuf' = (mlBuf \o <<"n">>) \o Line /\ mlQueue' = mlQueue /\ outCh' = outCh
       ELSE mlBuf' = <<>> /\ mlQueue' = Append(mlQueue, (mlBuf \o <<"n">>) \o Line)]_vars

\* with the condition ^b: a, b were joined and the line a, which does not
\* match, ended the record as its last line
C29_Witness ==
  /\ mlMode = "continuePast"
  /\ mlCfg.ConditionPattern = "^b"
  /\ written = <<<<"a">>, <<"b">>, <<"a">>>>
  /\ mlQueue = <<<<"a", "n", "b", "n", "a">>>>
  /\ mlBuf = <<>>

\* C30: mode haltBefore, a record in the buffer: a line that does not match
\* the condition is joined to the buffer and nothing is emitted; a line that
\* matches makes the buffer, without that line, a record of the queue, and
\* then starts the next buffer when it matches the start pattern and is a
\* record of its own otherwise.
C30_HaltBefore ==
  [][(Wrote /\ mlMode = "haltBefore" /\ Len(mlBuf) > 0) =>
       IF ~Match(mlCfg.ConditionPattern, Line)
       THEN mlBuf' = (mlBuf \o <<"n">>) \o Line /\ mlQueue' = mlQueue /\ outCh' = outCh
       ELSE IF Match(mlCfg.StartPattern, Line)
       THEN mlBuf' = Line /\ mlQueue' = Append(mlQueue, mlBuf)
       ELSE mlBuf' = <<>> /\ mlQueue' = Append(Append(mlQueue, mlBuf), Line)]_vars

\* with the condition ^a: a, b were joined, and the line a, which matches the
\* condition and the start pattern, closed that record and is the buffer
C30_Witness ==
  /\ mlMode = "haltBefore"
  /\ mlCfg.ConditionPattern = "^a"
  /\ written = <<<<"a">>, <<"b">>, <<"a">>>>
  /\ mlQueue = <<<<"a", "n", "b">>>>
  /\ mlBuf = <<"a">>

\* C31: mode haltWith, a record in the buffer: a line that does not match the
\* condition is joined to the buffer and nothing is emitted; a line that
\* matches is joined too and the buffer, that line included, becomes one
\* record of the queue, which leaves the buffer empty.
C31_HaltWith ==
  [][(Wrote /\ mlMode = "haltWith" /\ Len(mlBuf) > 0) =>
       IF ~Match(mlCfg.ConditionPattern, Line)
       THEN mlBuf' = (mlBuf \o <<"n">>) \o Line /\ mlQueue' = mlQueue /\ outCh' = outCh
       ELSE mlBuf' = <<>> /\ mlQueue' = Append(mlQueue, (mlBuf \o <<"n">>) \o Line)]_vars

\* with the condition ^b: a, a were joined and the line b, which matches,
\* ended the record as its last line
C31_Witness ==
  /\ mlMode = "haltWith"
  /\ mlCfg.ConditionPattern = "^b"
  /\ written = <<<<"a">>, <<"a">>, <<"b">>>>
  /\ mlQueue = <<<<"a", "n", "a", "n", "b">>>>
  /\ mlBuf = <<>>

\* ---------------------------------------------------------------------------
\* SpecRetry: Save and Delete are called on the store, one call at a time,
\* and every Exec succeeds, finds the database busy, or fails otherwise

\* the attempts execWithRetry makes at most, and the unit of its pause in
\* milliseconds
MaxAttempts == 5
BackoffMs == 50

\* what db.Exec returns
ExecResults == {"nil", "SQLITE_BUSY", "disk I/O error"}

\* an error of every kind counts as busy
isAnyError(e) == e # "nil"

\* isBusyError
isBusyError(e) == e = "SQLITE_BUSY"

InitRetry ==
  /\ NoCollector
  /\ mlMode = "none"
  /\ mlCfg = TailCfg
  /\ mlBuf = <<>>
  /\ mlQueue = <<>>
  /\ outCh = <<>>
  /\ out = <<>>
  /\ written = <<>>
  /\ NoAux

\* Save(fileID, ..., offset) or Delete(fileID, ...) is called: execWithRetry
\* starts with attempt 0
Store_Call(op, fileID, offset) ==
  /\ retry.pc \in {"idle", "returned"}
  /\ retry' = [pc |-> "exec", op |-> op, id |-> fileID, offset |-> offset,
               attempt |-> 0, errs |-> <<>>, slept |-> <<>>, ret |-> "none"]
  /\ UNCHANGED <<fsVars, info, tailers, collVars, tpc, tsep, tbuf, rpos, mlMode,
                 mlBuf, mlQueue, outCh, mlCfg, written, tStop, out, chunks, fp, bp, fds, cb>>

\* one pass through execWithRetry's loop up to the pause: s.db.Exec returns e
execWithRetry_Exec(e) ==
  /\ retry.pc = "exec"
  /\ offsets' = IF e # "nil" THEN offsets
                ELSE IF retry.op = "Save" THEN Store_Save(offsets, retry.id, retry.offset)
                ELSE Store_Delete(offsets, retry.id)
  /\ retry' = [retry EXCEPT
                 !.errs = Append(@, e),
                 !.pc = IF e = "nil" \/ ~isBusyError(e) THEN "returned" ELSE "sleep",
                 !.ret = IF e = "nil" \/ ~isBusyError(e) THEN e ELSE @]
  /\ UNCHANGED <<fsVars, info, tailers, dbOpen, schedVars, workerVars, scanVars,
                 stopVars, emitted, lastGet, since, lines, partial, afterStop, err,
                 tpc, tsep, tbuf, rpos, mlMode, mlBuf, mlQueue, outCh, mlCfg, written,
                 tStop, out, chunks, fp, bp, fds, cb>>

\* the pause of 50*(attempt+1) ms and the loop's step; after the last attempt
\* the error of that attempt is returned
execWithRetry_Sleep ==
  /\ retry.pc = "sleep"
  /\ retry' = [retry EXCEPT
                 !.slept = Append(@, BackoffMs * (retry.attempt + 1)),
                 !.attempt = @ + 1,
                 !.pc = IF retry.attempt + 1 < MaxAttempts THEN "exec" ELSE "returned",
                 !.ret = IF retry.attempt + 1 < MaxAttempts THEN @
                         ELSE retry.errs[Len(retry.errs)]]
  /\ UNCHANGED <<fsVars, info, tailers, collVars, tpc, tsep, tbuf, rpos, mlMode,
                 mlBuf, mlQueue, outCh, mlCfg, written, tStop, out, chunks, fp, bp, fds, cb>>

NextRetry ==
  \/ \E i \in Ids, o \in 1..2 : Store_Call("Save", i, o)
  \/ \E i \in Ids : Store_Call("Delete", i, 0)
  \/ \E e \in ExecResults : execWithRetry_Exec(e)
  \/ execWithRetry_Sleep

SpecRetry == InitRetry /\ [][NextRetry]_vars

FpLen == 5
FpChunk == 2

\* the counts of separators asked for
FpCounts == 1..2

\* findNthSeparator
RECURSIVE findNthSeparator(_, _, _, _, _)
findNthSeparator(buf, sep, n, found, searchStart) ==
  LET idx == BytesIndex(Tail0(buf, searchStart), sep)
      posAfter == searchStart + idx + Len(sep)
  IN IF found >= n THEN [posAfter |-> 0, found |-> found, ok |-> FALSE]
     ELSE IF idx < 0 THEN [posAfter |-> 0, found |-> found, ok |-> FALSE]
     ELSE IF found + 1 = n THEN [posAfter |-> posAfter, found |-> found + 1, ok |-> TRUE]
     ELSE findNthSeparator(buf, sep, n, found + 1, posAfter)

\* calcSearchStart
calcSearchStart(bufLen, sepLen) ==
  IF sepLen <= 1 THEN bufLen
  ELSE IF bufLen >= sepLen - 1 THEN bufLen - (sepLen - 1)
  ELSE 0

\* hashUntil: SHA-256 of data[:end], kept as the bytes hashed
hashUntil(bytes, end) == <<"sha256", SubSeq(bytes, 1, end)>>

\* the function is called on a file: Seek to the start, nothing accumulated
InitFp ==
  /\ NoCollector
  /\ mlMode = "none"
  /\ mlCfg = TailCfg
  /\ mlBuf = <<>>
  /\ mlQueue = <<>>
  /\ outCh = <<>>
  /\ out = <<>>
  /\ written = <<>>
  /\ NoRetry
  /\ NoPool
  /\ NoFds
  /\ NoCb
  /\ \E len \in 0..FpLen : \E c \in [1..len -> Bytes] : \E sp \in Separators :
     \E k \in FpCounts :
       fp = [pc |-> "read", content |-> c, sep |-> sp, n |-> k, acc |-> 0,
             found |-> 0, searchStart |-> 0, result |-> "none"]

\* one pass through the loop: file.Read fills the chunk, or returns io.EOF
Fingerprint_Read ==
  /\ fp.pc = "read"
  /\ LET nr == IF Len(fp.content) - fp.acc < FpChunk
               THEN Len(fp.content) - fp.acc ELSE FpChunk
         acc == SubSeq(fp.content, 1, fp.acc + nr)
         r == findNthSeparator(acc, fp.sep, fp.n, fp.found, fp.searchStart)
     IN fp' = IF nr = 0
              THEN [fp EXCEPT !.pc = "done", !.result = "NotEnoughSeparatorsError"]
              ELSE IF r.ok
              THEN [fp EXCEPT !.pc = "done", !.acc = Len(acc), !.found = r.found,
                              !.result = hashUntil(acc, r.posAfter)]
              ELSE [fp EXCEPT !.acc = Len(acc), !.found = r.found,
                              !.searchStart = calcSearchStart(Len(acc), Len(fp.sep))]
  /\ UNCHANGED <<fsVars, info, tailers, collVars, tpc, tsep, tbuf, rpos, mlMode,
                 mlBuf, mlQueue, outCh, mlCfg, written, tStop, out, chunks, retry, bp, fds, cb>>

NextFp == Fingerprint_Read

SpecFp == InitFp /\ [][NextFp]_vars

\* the position behind the n-th occurrence of sep in c at or after from,
\* occurrences counted left to right without overlap; -1 when there are fewer
RECURSIVE NthEnd(_, _, _, _)
NthEnd(c, sep, n, from) ==
  LET idx == BytesIndex(Tail0(c, from), sep)
  IN IF idx < 0 THEN -1
     ELSE IF n = 1 THEN from + idx + Len(sep)
     ELSE NthEnd(c, sep, n - 1, from + idx + Len(sep))

\* C33: the function returns the hash of the file's bytes up to and including
\* the n-th occurrence of sep, counted left to right without overlap in the
\* file's content, and the skip error when the content holds fewer
\* occurrences; the reads it made do not matter.
C33_ChecksumSeparator ==
  fp.pc = "done" =>
    fp.result = IF NthEnd(fp.content, fp.sep, fp.n, 0) < 0
                THEN "NotEnoughSeparatorsError"
                ELSE <<"sha256", SubSeq(fp.content, 1, NthEnd(fp.content, fp.sep, fp.n, 0))>>

\* ---------------------------------------------------------------------------
\* SpecSchedStop: the watcher's callbacks add and remove tailers, the workers
\* take tailers and give them back, and Collector.Stop is called at any time.
\* Every goroutine keeps being scheduled.
NextSchedStop ==
  \/ NextSched
  \/ \E w \in Workers : WorkerReturn(w)
  \/ Stop
  \/ StopWatcher
  \/ StopClose

SpecSchedStop ==
  /\ Init /\ [][NextSchedStop]_vars
  /\ \A w \in Workers : WF_vars(worker(w)) /\ WF_vars(WorkerReturn(w))
  /\ WF_vars(StopWatcher)
  /\ WF_vars(StopClose)

\* C34: a call of Collector.Stop returns, with every worker goroutine
\* finished: from the moment stopCh is closed the call gets past
\* workerWg.Wait and to its end.
C34_StopReturns ==
  /\ (stopPc = "wait") ~> (stopPc = "stopped")
  /\ [](stopPc = "stopped" => \A w \in Workers : pc[w] = "done")

(***************************************************************************)
(* bufferPool: the sync.Pool the TailReaders take their buf from.  A slice *)
(* is a backing array (0 for the nil slice), a length and the array's      *)
(* capacity; what the pool holds are pointers to slice variables.          *)
(***************************************************************************)
Readers == {"r1", "r2"}

\* The capacity of a slice bufferPool.New makes (4096 in the code).
PoolBufCap == 2
\* The most bytes one ReadBytes call returns.
MaxData == 2
\* The most arrays the readers allocate.
MaxArrays == 4
\* The most open calls of the readers together.
MaxOpens == 5

NilSlice == [arr |-> 0, len |-> 0]

\* what bufferPool.Get can return: a pointer the pool holds, or (the pool is
\* empty, or it dropped what it held) a pointer to the slice New makes
PoolGets == {t \in Readers : bp.pool[t] > 0} \cup {"new"}

\* the reader's descriptor is open
IsOpen(t) == bp.file[t]

InitPool ==
  /\ NoCollector
  /\ mlMode = "none"
  /\ mlCfg = TailCfg
  /\ mlBuf = <<>>
  /\ mlQueue = <<>>
  /\ outCh = <<>>
  /\ out = <<>>
  /\ written = <<>>
  /\ NoRetry
  /\ NoFp
  /\ NoFds
  /\ NoCb
  /\ bp = [pc |-> "pool",
           pool |-> [t \in Readers |-> 0],
           file |-> [t \in Readers |-> FALSE],
           buf |-> [t \in Readers |-> NilSlice],
           cap |-> [a \in 1..MaxArrays |-> 0],
           arrays |-> 0,
           opens |-> 0]

PoolUnchanged ==
  UNCHANGED <<fsVars, info, tailers, collVars, tpc, tsep, tbuf, rpos, mlMode,
              mlBuf, mlQueue, outCh, mlCfg, written, tStop, out, chunks, retry, fp, fds, cb>>

\* TailReader.open succeeds: t.file is set and, when t.buf is nil, t.buf
\* becomes (*bufferPool.Get())[:0].  A pointer the pool holds is the address
\* of a reader's buf field, so what it points to is that field's value now.
Pool_open(t, g) ==
  /\ bp.pc = "pool"
  /\ ~IsOpen(t)
  /\ bp.opens < MaxOpens
  /\ IF bp.buf[t].arr # 0
     THEN /\ g = "new"
          /\ bp' = [bp EXCEPT !.file[t] = TRUE, !.opens = @ + 1]
     ELSE IF g = "new"
     THEN /\ bp.arrays < MaxArrays
          /\ bp' = [bp EXCEPT !.file[t] = TRUE, !.opens = @ + 1,
                              !.arrays = @ + 1,
                              !.cap[bp.arrays + 1] = PoolBufCap,
                              !.buf[t] = [arr |-> bp.arrays + 1, len |-> 0]]
     ELSE /\ g \in PoolGets
          /\ bp' = [bp EXCEPT !.file[t] = TRUE, !.opens = @ + 1,
                              !.pool[g] = @ - 1,
                              !.buf[t] = [arr |-> bp.buf[g].arr, len |-> 0]]
  /\ PoolUnchanged

\* readNextChunk: t.buf = append(t.buf, data...) with n bytes of data; append
\* writes into the array when the bytes fit and allocates one when not.  When
\* the separator is found the chunk is returned and t.buf = t.buf[:0].
Pool_readNextChunk(t, n, found) ==
  /\ bp.pc = "pool"
  /\ IsOpen(t)
  /\ LET b == bp.buf[t]
         fits == b.arr # 0 /\ b.len + n <= bp.cap[b.arr]
         len == IF found THEN 0 ELSE b.len + n
     IN IF n = 0
        THEN UNCHANGED bp
        ELSE IF fits
        THEN bp' = [bp EXCEPT !.buf[t] = [arr |-> b.arr, len |-> len]]
        ELSE /\ bp.arrays < MaxArrays
             /\ bp' = [bp EXCEPT !.arrays = @ + 1,
                                 !.cap[bp.arrays + 1] = b.len + n,
                                 !.buf[t] = [arr |-> bp.arrays + 1, len |-> len]]
  /\ PoolUnchanged

\* TailReader.cleanup: closes the file; when t.buf is not nil it does
\* bufferPool.Put(&t.buf) and then t.buf = nil
Pool_cleanup(t) ==
  /\ bp.pc = "pool"
  /\ IsOpen(t)
  /\ bp' = IF bp.buf[t].arr # 0
           THEN [bp EXCEPT !.file[t] = FALSE, !.pool[t] = @ + 1,
                           !.buf[t] = NilSlice]
           ELSE [bp EXCEPT !.file[t] = FALSE]
  /\ PoolUnchanged

NextPool ==
  \/ \E t \in Readers : \E g \in Readers \cup {"new"} : Pool_open(t, g)
  \/ \E t \in Readers : \E n \in 0..MaxData : \E found \in BOOLEAN :
       Pool_readNextChunk(t, n, found)
  \/ \E t \in Readers : Pool_cleanup(t)

SpecPool == InitPool /\ [][NextPool]_vars

\* C35: no two open tailers use the same backing array for their buf: the
\* array a tailer got from the pool in open is never one that another open
\* tailer still reads and appends to.
C35_NoSharedBuffer ==
  bp.pc = "pool" =>
    \A t1 \in Readers : \A t2 \in Readers \ {t1} :
      (IsOpen(t1) /\ IsOpen(t2) /\ bp.buf[t1].arr # 0)
        => bp.buf[t1].arr # bp.buf[t2].arr


(***************************************************************************)
(* SpecTrunc: truncation in place.  The file at p keeps its inode, hence   *)
(* its DeviceAndInode identity, while a writer cuts it to a shorter length *)
(* and appends to it again.  One worker, the watcher and its removals.     *)
(***************************************************************************)
\* os.Truncate(path, n) on a file of more than n bytes
Truncate(i, n) ==
  /\ fsOps < MaxFsOps
  /\ loc[i] # "none"
  /\ n < Len(data[i])
  /\ data' = [data EXCEPT ![i] = SubSeq(@, 1, n)]
  /\ fsOps' = fsOps + 1
  /\ UNCHANGED <<loc, info, offsets, dbOpen, tailers, schedVars, workerVars,
                 scanVars, stopVars, emitted, lastGet, since, lines, partial, afterStop, err, tailVars>>

NextTrunc ==
  \/ worker(1)
  \/ WatcherStep
  \/ RemovalStep
  \/ \E i \in Ids, b \in Bytes : Len(data[i]) < RaceLen /\ Write(i, b)
  \/ \E i \in Ids, n \in 0..RaceLen : Truncate(i, n)

SpecTrunc ==
  /\ Init /\ [][NextTrunc]_vars
  /\ WF_vars(worker(1))
  /\ WF_vars(WatcherStep)
  /\ WF_vars(RemovalStep)

\* ReadOnce of worker w has opened the file and seeked to the tailer's Offset
ReadOnceOpens(w) == pc[w] = "open" /\ pc'[w] = "read"

\* the scheduled tailers of files that are tracked and in place
LiveTailers ==
  {k \in 1..Len(tailers) :
     /\ \E j \in 1..Len(available) : available[j] = k
     /\ tailers[k].FileId \in DOMAIN info
     /\ loc[tailers[k].FileId] = info[tailers[k].FileId].Path}

\* C36: under DeviceAndInode, when a tracked file is truncated in place below
\* the tailer's Offset and written again, the tailer does not go on from the
\* stale Offset: no ReadOnce starts to read at an Offset beyond the file's
\* length (so the Offset of a read of an unchanged file is at most the
\* length), and in the end no complete record of the file is left unread.
C36_TruncationResets ==
  /\ [][\A w \in Workers :
          ReadOnceOpens(w) =>
            tailers'[cur[w]].Offset <= Len(data'[tailers[cur[w]].FileId])]_vars
  /\ <>[](\A k \in LiveTailers :
            /\ tailers[k].Offset <= Len(data[tailers[k].FileId])
            /\ ReadNextChunk(Tail0(data[tailers[k].FileId], tailers[k].Offset),
                             Separator) = 0)


(***************************************************************************)
(* SpecFlush: the aggregator with its caller's Write, Flush and Read and   *)
(* the ticker, for start patterns that do and do not match the empty line. *)
(***************************************************************************)
FlushCfgs == {[StartPattern |-> st, ConditionPattern |-> c, Timeout |-> 1] :
                st \in {"^a", "^$"}, c \in {"^$", "^a", "^b"}}

InitFlush ==
  /\ NoCollector
  /\ mlMode \in Modes
  /\ mlCfg \in FlushCfgs
  /\ written = <<>>
  /\ NoAux
  /\ mlBuf = <<>>
  /\ mlQueue = <<>>
  /\ outCh = <<>>
  /\ out = <<>>

\* MultilineReader.Flush()
ML_Flush ==
  /\ mlBuf' = Multiline_Flush(MLState).buf
  /\ mlQueue' = Multiline_Flush(MLState).queue
  /\ outCh' = Multiline_Flush(MLState).ch
  /\ UNCHANGED <<fsVars, info, tailers, collVars, tpc, tsep, tbuf, rpos, mlMode,
                 mlCfg, written, auxVars, tStop, out, chunks>>

NextFlush ==
  \/ \E line \in MLLines : ML_Write(line)
  \/ ML_Flush
  \/ ML_Read
  \/ ML_Recv
  \/ Multiline_timeout

SpecFlush == InitFlush /\ [][NextFlush]_vars

\* strings.Join(recs, "\n")
RECURSIVE JoinNL(_)
JoinNL(recs) ==
  IF Len(recs) = 0 THEN <<>>
  ELSE IF Len(recs) = 1 THEN recs[1]
  ELSE (recs[1] \o <<NL>>) \o JoinNL(Tail(recs))

\* the caller has flushed and has read until Read returned EOF
Drained == Len(mlBuf) = 0 /\ Len(mlQueue) = 0

\* C37: in every mode, after any Writes on a validated aggregator followed by
\* Flush and by Read until empty, with timeout flushes in between, the
\* records returned, joined by a newline, are the lines written, joined by a
\* newline (so every written line is in exactly one record).
C37_RecordsAreTheLines ==
  Drained => JoinNL(out) = JoinNL(written)


(***************************************************************************)
(* SpecOpen: TailReader.open and the file descriptors.  One tailer is      *)
(* opened and cleaned up again and again (as the collector's workers do    *)
(* with ReadOnce) while the file at its path is rewritten, truncated or    *)
(* replaced, and while system calls on the descriptor may fail.            *)
(***************************************************************************)
Strategies == {"checksum", "checksumSeparator", "deviceAndInode"}

\* what the file at the tailer's path can hold (at most one read of the
\* separator fingerprint's loop)
OpenContents == UNION {[1..n -> Bytes] : n \in 0..FpChunk}

Inodes == 1..2

\* FingerprintSize: the bytes, or the separators, of a fingerprint
FpSizes == 1..2

\* the most open calls followed
MaxCalls == 3

\* how the system calls of one open come out
SysOutcomes == {"ok", "open fails", "stat fails", "seek fails"}

\* GetFileFingerprint
GetFileFingerprint(content, maxBytes) ==
  IF Len(content) < maxBytes THEN [err |-> "FileSizeTooSmallError", id |-> <<>>]
  ELSE [err |-> "nil", id |-> hashUntil(content, maxBytes)]

\* GetFileFingerprintUntilNSeparators on a file its first read returns whole
GetFileFingerprintUntilNSeparators(content, sep, n) ==
  LET r == findNthSeparator(content, sep, n, 0, 0)
  IN IF Len(content) > 0 /\ r.ok
     THEN [err |-> "nil", id |-> hashUntil(content, r.posAfter)]
     ELSE [err |-> "NotEnoughSeparatorsError", id |-> <<>>]

\* the identity of the file under a strategy: the switch in open, and the
\* one in the watcher's computeFileID
ComputeFileId(strategy, size, content, inode, sys) ==
  CASE strategy = "checksum" ->
         IF sys = "stat fails" THEN [err |-> "stat", id |-> <<>>]
         ELSE GetFileFingerprint(content, size)
    [] strategy = "checksumSeparator" ->
         GetFileFingerprintUntilNSeparators(content, Separator, size)
    [] strategy = "deviceAndInode" ->
         IF sys = "stat fails" THEN [err |-> "stat", id |-> <<>>]
         ELSE [err |-> "nil", id |-> <<"inode", inode>>]
    [] OTHER -> [err |-> "unsupported fingerprint strategy", id |-> <<>>]

\* TailReader.open from os.Open on: the error it returns, whether it opened
\* a descriptor and whether it closed it
openFile(f, sys) ==
  LET c == ComputeFileId(f.strategy, f.size, f.content, f.inode, sys)
  IN IF sys = "open fails" THEN [err |-> "not exist", opened |-> 0, closed |-> 0]
     ELSE IF c.err # "nil" THEN [err |-> c.err, opened |-> 1, closed |-> 0]
     ELSE IF c.id # f.id
     THEN [err |-> "FileFingerprintMismatchError", opened |-> 1, closed |-> 1]
     ELSE IF sys = "seek fails" THEN [err |-> "seek", opened |-> 1, closed |-> 1]
     ELSE [err |-> "nil", opened |-> 1, closed |-> 0]

\* the watcher has registered a file it could compute an identity for
InitOpen ==
  /\ NoCollector
  /\ mlMode = "none"
  /\ mlCfg = TailCfg
  /\ mlBuf = <<>>
  /\ mlQueue = <<>>
  /\ outCh = <<>>
  /\ out = <<>>
  /\ written = <<>>
  /\ NoRetry
  /\ NoFp
  /\ NoPool
  /\ NoCb
  /\ \E st \in Strategies, sz \in FpSizes, c \in OpenContents, i \in Inodes :
       /\ Len(c) > 0
       /\ ComputeFileId(st, sz, c, i, "ok").err = "nil"
       /\ fds = [pc |-> "fds", strategy |-> st, size |-> sz, content |-> c,
                 inode |-> i, id |-> ComputeFileId(st, sz, c, i, "ok").id,
                 file |-> FALSE, open |-> 0, ret |-> "none", opened |-> 0,
                 calls |-> 0]

OpenUnchanged ==
  UNCHANGED <<fsVars, info, tailers, collVars, tpc, tsep, tbuf, rpos, mlMode,
              mlBuf, mlQueue, outCh, mlCfg, written, tStop, out, chunks, retry,
              fp, bp, cb>>

\* t.open(): nil at once when t.file is set, else openFile
Fds_open(sys) ==
  /\ fds.pc = "fds"
  /\ fds.calls < MaxCalls
  /\ LET r == openFile(fds, sys)
     IN fds' = IF fds.file
               THEN [fds EXCEPT !.ret = "nil", !.opened = 0, !.calls = @ + 1]
               ELSE [fds EXCEPT !.ret = r.err, !.opened = r.opened,
                                !.open = @ + r.opened - r.closed,
                                !.file = (r.err = "nil"), !.calls = @ + 1]
  /\ OpenUnchanged

\* t.cleanup(): the file is closed and t.file set to nil
Fds_cleanup ==
  /\ fds.pc = "fds"
  /\ fds.file
  /\ fds' = [fds EXCEPT !.file = FALSE, !.open = @ - 1]
  /\ OpenUnchanged

\* the file at the path is written to, truncated, or replaced by another
Fds_change(c, i) ==
  /\ fds.pc = "fds"
  /\ <<c, i>> # <<fds.content, fds.inode>>
  /\ fds' = [fds EXCEPT !.content = c, !.inode = i]
  /\ OpenUnchanged

\* the garbage collector runs the finalizer of an os.File that nothing
\* refers to any more, which closes its descriptor
Fds_finalizer ==
  /\ fds.pc = "fds"
  /\ fds.open > (IF fds.file THEN 1 ELSE 0)
  /\ fds' = [fds EXCEPT !.open = @ - 1]
  /\ OpenUnchanged

NextOpen ==
  \/ \E sys \in SysOutcomes : Fds_open(sys)
  \/ Fds_cleanup
  \/ \E c \in OpenContents, i \in Inodes : Fds_change(c, i)
  \/ Fds_finalizer

SpecOpen == InitOpen /\ [][NextOpen]_vars

\* open has just returned an error after it had opened the file
OpenFailedAfterOpening ==
  /\ fds'.calls = fds.calls + 1
  /\ fds'.ret # "nil"
  /\ fds'.opened = 1

\* C38: when open returns an error after it opened the file (fingerprint,
\* stat, strategy, identity mismatch or seek failure) the descriptor has been
\* closed: a failing open leaves as many descriptors open as it found.
C38_FailedOpenCloses ==
  [][(fds.pc = "fds" /\ OpenFailedAfterOpening) => fds'.open = fds.open]_vars


(***************************************************************************)
(* SpecCb: the function each worker hands to ReadOnce, which ReadOnce      *)
(* calls once for every record: c.mu.Lock(), c.onLineFunc(line) when it is *)
(* set, bo.Reset(), and the deferred c.mu.Unlock().                        *)
(***************************************************************************)
\* the most records one ReadOnce delivers
MaxRecords == 2
\* the most records delivered in all
MaxDelivered == 4

\* a Lock that returns without waiting for the holder
Mutex_NoWait(mu, w) == TRUE

\* sync.Mutex.Lock by w can return: nobody holds the mutex
Mutex_Lock(mu, w) == mu = 0

InitCb ==
  /\ NoCollector
  /\ mlMode = "none"
  /\ mlCfg = TailCfg
  /\ mlBuf = <<>>
  /\ mlQueue = <<>>
  /\ outCh = <<>>
  /\ out = <<>>
  /\ written = <<>>
  /\ NoRetry
  /\ NoFp
  /\ NoPool
  /\ NoFds
  /\ \E f \in BOOLEAN :
       cb = [on |-> TRUE,
             pc |-> [w \in Workers |-> "idle"],
             left |-> [w \in Workers |-> 0],
             mu |-> 0,
             onLineFunc |-> f,
             delivered |-> 0]

CbUnchanged ==
  UNCHANGED <<fsVars, info, tailers, collVars, tpc, tsep, tbuf, rpos, mlMode,
              mlBuf, mlQueue, outCh, mlCfg, written, tStop, out, chunks, retry,
              fp, bp, fds>>

\* the worker's ReadOnce finds n records in its file
Cb_ReadOnce(w, n) ==
  /\ cb.on
  /\ cb.pc[w] = "idle"
  /\ cb.delivered + n <= MaxDelivered
  /\ cb' = [cb EXCEPT !.pc[w] = "lock", !.left[w] = n]
  /\ CbUnchanged

\* c.mu.Lock() returns; c.onLineFunc is entered when it is not nil
Cb_Lock(w) ==
  /\ cb.on
  /\ cb.pc[w] = "lock"
  /\ Mutex_Lock(cb.mu, w)
  /\ cb' = [cb EXCEPT !.mu = w,
                      !.pc[w] = IF cb.onLineFunc THEN "onLine" ELSE "unlock"]
  /\ CbUnchanged

\* c.onLineFunc(line) returns
Cb_OnLine(w) ==
  /\ cb.on
  /\ cb.pc[w] = "onLine"
  /\ cb' = [cb EXCEPT !.pc[w] = "unlock", !.delivered = @ + 1]
  /\ CbUnchanged

\* bo.Reset() and the deferred c.mu.Unlock(); ReadOnce goes on to its next
\* record or returns
Cb_Unlock(w) ==
  /\ cb.on
  /\ cb.pc[w] = "unlock"
  /\ cb' = [cb EXCEPT !.mu = 0,
                      !.left[w] = @ - 1,
                      !.pc[w] = IF cb.left[w] > 1 THEN "lock" ELSE "idle"]
  /\ CbUnchanged

NextCb ==
  \/ \E w \in Workers, n \in 1..MaxRecords : Cb_ReadOnce(w, n)
  \/ \E w \in Workers : Cb_Lock(w)
  \/ \E w \in Workers : Cb_OnLine(w)
  \/ \E w \in Workers : Cb_Unlock(w)

SpecCb == InitCb /\ [][NextCb]_vars

\* worker w is inside the user's callback
InOnLine(w) == cb.pc[w] = "onLine"

\* C39: the OnLine callback is never executed by two workers at the same
\* time: the collector's calls of it do not overlap.
C39_CallbackExclusive ==
  cb.on =>
    \A w1 \in Workers : \A w2 \in Workers \ {w1} : ~(InOnLine(w1) /\ InOnLine(w2))

\* a worker is inside the callback while another worker, with a record to
\* deliver, waits for the mutex
C39_Witness ==
  /\ cb.on
  /\ \E w1 \in Workers : \E w2 \in Workers \ {w1} :
       InOnLine(w1) /\ cb.pc[w2] = "lock" /\ cb.delivered > 0


(***************************************************************************)
(* SpecSchedUpdate: the scheduler called directly, as in SpecSched, with   *)
(* Add's update parameter false or true.                                   *)
(***************************************************************************)
\* TailScheduler.Add(id, fileTail, update)
TailScheduler_AddUpdate(s, id, fileTail, update) ==
  IF ~update /\ id \in DOMAIN s.index
  THEN s
  ELSE LET l == Append(s.available, fileTail)
       IN [available |-> l,
           index |-> MapPut(s.index, id, fileTail),
           running |-> s.running,
           cursor |-> IF s.cursor = Nil THEN Front(l) ELSE s.cursor]

\* Add(id, &fileTail, update) with a TailReader made for id
AddUpdate(id, update) ==
  /\ Len(tailers) < MaxTailers
  /\ ~Locked
  /\ tailers' = Append(tailers, [FileId |-> id, Offset |-> 0])
  /\ LET s == TailScheduler_AddUpdate(Sched, id, Len(tailers) + 1, update)
     IN /\ available' = s.available
        /\ cursor' = s.cursor
        /\ index' = s.index
        /\ running' = s.running
  /\ UNCHANGED <<fsVars, info, offsets, dbOpen, workerVars, scanVars, stopVars,
                 emitted, lastGet, since, lines, partial, afterStop, err, tailVars>>

NextSchedUpdate ==
  \/ \E id \in Ids, update \in BOOLEAN : AddUpdate(id, update)
  \/ \E id \in Ids : Remove(id)
  \/ \E w \in Workers : getNextAvailable(w)
  \/ \E w \in Workers : ReadOnce_open(w)
  \/ \E w \in Workers : SetIdle(w)

SpecSchedUpdate == Init /\ [][NextSchedUpdate]_vars

\* the elements of the scheduler's list
Elements == {available[k] : k \in 1..Len(available)}

\* C40: after any Adds (update false or true), Removes, SetIdles and
\* getNextAvailables the list holds exactly one element per indexed id, the
\* index maps each id to its own element of the list, the in-flight set
\* mentions indexed ids only, and the cursor is nil or an element of the list.
C40_SchedulerConsistent ==
  /\ Len(available) = Cardinality(DOMAIN index)
  /\ \A id \in DOMAIN index :
       index[id] \in Elements /\ tailers[index[id]].FileId = id
  /\ \A k \in 1..Len(available) :
       tailers[available[k]].FileId \in DOMAIN index
  /\ DOMAIN running \subseteq DOMAIN index
  /\ cursor = Nil \/ cursor \in Elements

====
